---- MODULE Spec2Model ----
(***************************************************************************)
(* Botrix: the mailbox-credential pool (workers/email_handler.py), the     *)
(* account pipeline (workers/account_creator.py) and the queue worker      *)
(* (workers/worker_daemon.py), as state machines.                          *)
(*                                                                         *)
(* Text is modelled as a tuple of one-character strings, so that the       *)
(* line parser of the pool works on characters as the code does.           *)
(***************************************************************************)
EXTENDS Integers, Sequences, FiniteSets, TLC

VARIABLES
    \* ---- HotmailPool ----
    source,            \* the lines of pool_file
    pool_ok,           \* HotmailPool(...) returned without raising
    available_emails,  \* list of <<email, password>>
    used_emails,       \* set of email
    failed_emails,     \* set of email
    nextRet,           \* what the last get_next_email call returned
    last_call,         \* the last method called on the pool
    \* ---- KickAccountCreator.create_account, one entry per run ----
    rpc,               \* position of the run
    remail,            \* local `email` of the run
    rresult,           \* the dict the run returned
    rraised,           \* the run raised to its caller
    rfail,             \* where and how the run left the try block
    kicks,             \* the records in output_file
    rcalls,            \* the calls the run has made to its collaborators, in order
    rtoken,            \* local `verification_token` of the run
    \* ---- queue / broker ----
    queue,             \* list at QUEUE_KEY
    status,            \* STATUS_KEY_PREFIX + job id
    error_key,         \* STATUS_KEY_PREFIX + job id + ":error" is set
    statusLog,         \* per job id, the statuses set so far, in order
    events,            \* messages published on UPDATES_CHANNEL
    enqueued,          \* what the producer has pushed
    \* ---- WorkerDaemon, one entry per worker ----
    alive,             \* the worker process exists
    shutdown_requested,
    account_creator,   \* what self.account_creator holds
    wpc,               \* position of the worker
    job_data,          \* the payload being processed
    accounts_created,  \* list of truthy results of this attempt
    errors,            \* len(errors) of this attempt
    unit_i,            \* loop index i of this attempt
    pipeline_runs,     \* create_account calls of this attempt that ran the pipeline
    \* ---- liveness record and health check task, one entry per worker ----
    health,            \* key: seconds before HEALTH_KEY_PREFIX + worker id expires
                       \* (0: no such key); pc, sleep: the health check task
    aged,              \* time has passed since run() started the work loop
    \* ---- EmailVerifier and the inbox it reads ----
    mailbox,           \* the messages of KICK_EMAIL_SENDER in the inbox, oldest first
    gv_pc,             \* position of get_verification_code
    timeout,           \* its argument `timeout`
    poll_interval,     \* its argument `poll_interval`
    now,               \* time.time() - start_time
    code,              \* what get_verification_code returned
    imap_connection,   \* self.imap_connection
    in_block,          \* the caller is inside `async with verifier`
    conn_call,         \* the last of connect, disconnect, __aenter__, __aexit__
                       \* that was called, and whether it raised
    \* ---- KasadaSolver.solve ----
    solve_pc,          \* position of solve
    test_mode,         \* self.test_mode
    fetch_url,         \* its argument `fetch_url`
    calls,             \* the responses to the requests sent so far
    sleeps,            \* the backoff sleeps so far
    solve_out,         \* what solve returned or raised
    \* ---- KasadaSolver._enforce_rate_limit, tasks on one client ----
    clock,             \* time.time(), in seconds
    last_request_time, \* self.last_request_time
    rl_pc,             \* task -> where it is: idle, sleeping, calling
    wake,              \* task -> the time its asyncio.sleep is over
    starts,            \* the times at which the requests were started
    \* ---- KickAccountCreator._make_request ----
    http_pc,           \* position of _make_request
    http_retry,        \* its argument `retry`
    http_calls,        \* what the requests sent so far ended in
    http_sleeps,       \* the sleeps between the attempts so far
    http_out,          \* the status it returned or the exception it raised
    \* ---- KickAccountCreator._save_account, instances on one file ----
    output_file,       \* the content of self.output_file: a list of records
    save_pc,           \* instance -> where its _save_account is
    save_accounts,     \* instance -> its local `accounts`
    saves              \* instance -> the calls of _save_account it has ended

poolVars == <<source, pool_ok, available_emails, used_emails, failed_emails, last_call,
              nextRet>>
pipeVars == <<rpc, remail, rresult, rraised, rfail, kicks, rcalls, rtoken>>
brokerVars == <<queue, status, error_key, statusLog, events, enqueued>>
workerVars == <<alive, shutdown_requested, account_creator, wpc, job_data,
                accounts_created, errors, unit_i, pipeline_runs>>
healthVars == <<health, aged>>
mailVars == <<mailbox, gv_pc, timeout, poll_interval, now, code, imap_connection,
             in_block, conn_call>>
solverVars == <<solve_pc, test_mode, fetch_url, calls, sleeps, solve_out>>
rateVars == <<clock, last_request_time, rl_pc, wake, starts>>
httpVars == <<http_pc, http_retry, http_calls, http_sleeps, http_out>>
saveVars == <<output_file, save_pc, save_accounts, saves>>
extraVars == <<rateVars, httpVars, saveVars>>
vars == <<poolVars, pipeVars, brokerVars, workerVars, healthVars, mailVars, solverVars,
          extraVars>>

None == "None"

(***************************************************************************)
(* Bounds                                                                  *)
(***************************************************************************)
MaxLines == 3      \* lines in a credential source
MaxPool == 3       \* credentials in the pool of a pipeline run
MaxCount == 2      \* largest "count" of a job
MaxRetries == 1    \* max_retries of the workers
HealthInterval == 6  \* health_check_interval of the workers, in seconds
MaxMail == 2       \* messages of the sender in the inbox
MaxTimeout == 2    \* largest `timeout` of get_verification_code
MaxPoll == 2       \* largest `poll_interval` of get_verification_code
MaxSearch == 3     \* longest search of the inbox

(***************************************************************************)
(* Text helpers                                                            *)
(***************************************************************************)
Letters == <<"a", "b", "c", "d", "e">>

\* `c in s`
InText(c, s) == \E i \in 1..Len(s) : s[i] = c

RECURSIVE LStrip(_)
LStrip(s) == IF s # <<>> /\ Head(s) = " " THEN LStrip(Tail(s)) ELSE s

RECURSIVE RStrip(_)
RStrip(s) ==
    IF s # <<>> /\ s[Len(s)] = " " THEN RStrip(SubSeq(s, 1, Len(s) - 1)) ELSE s

\* str.strip()
Strip(s) == RStrip(LStrip(s))

\* index of the first occurrence of c in s (c is in s)
FirstIndex(c, s) == CHOOSE i \in 1..Len(s) : s[i] = c /\ \A k \in 1..(i - 1) : s[k] # c

\* line.split(':', 1) for a line that holds ':'
SplitOnce(s) ==
    LET i == FirstIndex(":", s)
    IN  <<SubSeq(s, 1, i - 1), SubSeq(s, i + 1, Len(s))>>

\* the identifier "x@." and the source line "x@.:p" of the k-th credential
EmailOf(k) == <<Letters[k], "@", ".">>
CredLine(k) == <<Letters[k], "@", ".", ":", "p">>

SampleLines ==
    { CredLine(1),                       \* a@.:p
      <<" ", "b", "@", ".", ":", "q", " ">>,  \* " b@.:q " (stripped on load)
      <<"a", "@", ".", ":", "z">>,       \* a@.:z, the identifier a@. again
      <<" ">>,                           \* blank
      <<"#", "c">>,                      \* comment
      <<"a", "b">>,                      \* no separator
      <<"a", ".", ":", "p">> }           \* identifier without '@'

RECURSIVE SeqsUpTo(_, _)
SeqsUpTo(S, n) ==
    IF n = 0 THEN {<<>>}
    ELSE LET shorter == SeqsUpTo(S, n - 1)
         IN  shorter \cup {Append(s, x) : s \in {t \in shorter : Len(t) = n - 1}, x \in S}

Sources == SeqsUpTo(SampleLines, MaxLines)

\* identifiers the callers pass to mark_as_used / mark_as_failed
Identifiers == {EmailOf(1), EmailOf(2), EmailOf(3)}

(***************************************************************************)
(* HotmailPool                                                             *)
(***************************************************************************)
\* _load_emails: the loop over the lines.  acc is available_emails so far;
\* the result is [err, avail]; err is TRUE when MalformedEmailFormatError
\* was raised, and avail is then what had been appended before the raise.
RECURSIVE LoadLines(_, _, _, _)
LoadLines(lines, acc, used, failed) ==
    IF lines = <<>> THEN [err |-> FALSE, avail |-> acc]
    ELSE LET line == Strip(Head(lines))
             rest == Tail(lines)
         IN  IF line = <<>> \/ line[1] = "#"
                THEN LoadLines(rest, acc, used, failed)
             ELSE IF ~InText(":", line)
                THEN [err |-> TRUE, avail |-> acc]
             ELSE LET parts == SplitOnce(line)
                      email_address == Strip(parts[1])
                      password == Strip(parts[2])
                  IN  IF ~InText("@", email_address) \/ ~InText(".", email_address)
                         THEN LoadLines(rest, acc, used, failed)
                      ELSE IF email_address \in used \/ email_address \in failed
                         THEN LoadLines(rest, acc, used, failed)
                      ELSE LoadLines(rest, Append(acc, <<email_address, password>>),
                                     used, failed)

\* the identifiers a source lists as valid entries
LoadedIds(src) ==
    LET r == LoadLines(src, <<>>, {}, {})
    IN  {r.avail[i][1] : i \in 1..Len(r.avail)}

ValidSource(src) == ~LoadLines(src, <<>>, {}, {}).err

AvailableIds == {available_emails[i][1] : i \in 1..Len(available_emails)}

\* a mark that leaves available_emails as it is
KeepAll(list, email_address) == list

\* [(e, p) for e, p in self.available_emails if e != email_address]
RECURSIVE Without(_, _)
Without(list, email_address) ==
    IF list = <<>> THEN <<>>
    ELSE IF Head(list)[1] = email_address THEN Without(Tail(list), email_address)
    ELSE <<Head(list)>> \o Without(Tail(list), email_address)

\* mark_as_used: the new used_emails
UsedAfterMarkUsed(used, failed, email_address) == used \cup {email_address}

\* mark_as_failed: the new failed_emails
FailedAfterMarkFailed(used, failed, email_address) == failed \cup {email_address}

\* a load that skips the lines without separator instead of raising
LoadEmailsLenient(src, avail, used, failed) ==
    [err |-> FALSE, avail |-> LoadLines(src, avail, used, failed).avail]

\* a load that does not look at used_emails and failed_emails
LoadEmailsAfresh(src, avail, used, failed) == LoadLines(src, avail, {}, {})

\* _load_emails as called from __init__ and reload: [err, avail]
LoadEmails(src, avail, used, failed) == LoadLines(src, avail, used, failed)

\* the last entry of the list instead of the first
GetLastEmailResult(avail) ==
    IF avail = <<>> THEN "EmailPoolEmptyError" ELSE avail[Len(avail)]

\* a get_next_email that returns a pair of None for an empty list
GetNextEmailOrNone(avail) == IF avail = <<>> THEN <<None, None>> ELSE avail[1]

\* get_next_email: the returned tuple, or the error raised on an empty pool
GetNextEmailResult(avail) ==
    IF avail = <<>> THEN "EmailPoolEmptyError" ELSE avail[1]

\* get_stats
GetStats(avail, used, failed) ==
    [available |-> Len(avail), used |-> Cardinality(used), failed |-> Cardinality(failed),
     total |-> Len(avail) + Cardinality(used) + Cardinality(failed)]

PoolInit(srcs) ==
    /\ source \in srcs
    /\ LET r == LoadEmails(source, <<>>, {}, {})
       IN  /\ pool_ok = ~r.err
           /\ available_emails = IF r.err THEN <<>> ELSE r.avail
    /\ used_emails = {}
    /\ failed_emails = {}
    /\ nextRet = None
    /\ last_call = "__init__"

GetNextEmail ==
    /\ pool_ok
    /\ nextRet' = GetNextEmailResult(available_emails)
    /\ last_call' = "get_next_email"
    /\ UNCHANGED <<source, pool_ok, available_emails, used_emails, failed_emails>>

MarkAsUsed(email_address) ==
    /\ pool_ok
    /\ used_emails' = UsedAfterMarkUsed(used_emails, failed_emails, email_address)
    /\ available_emails' = Without(available_emails, email_address)
    /\ last_call' = "mark_as_used"
    /\ UNCHANGED <<source, pool_ok, failed_emails, nextRet>>

MarkAsFailed(email_address) ==
    /\ pool_ok
    /\ failed_emails' = FailedAfterMarkFailed(used_emails, failed_emails, email_address)
    /\ available_emails' = Without(available_emails, email_address)
    /\ last_call' = "mark_as_failed"
    /\ UNCHANGED <<source, pool_ok, used_emails, nextRet>>

Reload ==
    /\ pool_ok
    /\ available_emails' = LoadEmails(source, <<>>, used_emails, failed_emails).avail
    /\ last_call' = "reload"
    /\ UNCHANGED <<source, pool_ok, used_emails, failed_emails, nextRet>>

\* a line is appended to pool_file while the pool is in use
AppendLine(line) ==
    /\ pool_ok
    /\ Len(source) < MaxLines
    /\ source' = Append(source, line)
    /\ UNCHANGED <<pool_ok, available_emails, used_emails, failed_emails, nextRet, last_call>>

(***************************************************************************)
(* KickAccountCreator.create_account                                       *)
(***************************************************************************)
Runs == {"r1", "r2"}

NoResult == [absent |-> TRUE]
NoFail == [stage |-> None, outcome |-> "ok"]

\* what a stage's collaborator does: it succeeds, it fails the way the stage
\* expects (an error status, a solver or mailbox error), or it raises
\* something else (a transport error, a timeout after the retries)
Outcomes == {"ok", "fail", "exc"}

InFlight == {"solve", "send", "await", "verify", "register"}

\* the exception that leaves the try block when `stage` ends with `outcome`
Raised(stage, outcome) ==
    IF outcome = "exc" THEN "Exception"
    ELSE CASE stage = "acquire" -> "EmailVerificationError"  \* EmailPoolEmptyError
           [] stage = "solve" -> "KasadaSolverError"
           [] stage = "send" -> "VerificationFailedError"
           [] stage = "await" -> "EmailVerificationError"
           [] stage = "verify" -> "VerificationFailedError"
           [] stage = "register" -> "RegistrationFailedError"

\* except clauses that all call mark_as_failed
HandlerAllFailed(exc) ==
    [mark |-> "failed",
     error |-> CASE exc = "EmailVerificationError" -> "Email verification failed"
                 [] exc = "KasadaSolverError" -> "Kasada challenge failed"
                 [] exc = "VerificationFailedError" -> "Verification failed"
                 [] exc = "RegistrationFailedError" -> "Registration failed"
                 [] exc = "Exception" -> "Unexpected error"]

\* the except clauses of create_account: which pool call the clause makes
\* for an acquired email, and the "error" it puts in the result
Handler(exc) ==
    CASE exc = "EmailVerificationError" ->
            [mark |-> "failed", error |-> "Email verification failed"]
      [] exc = "KasadaSolverError" ->
            [mark |-> "failed", error |-> "Kasada challenge failed"]
      [] exc = "VerificationFailedError" ->
            [mark |-> "failed", error |-> "Verification failed"]
      [] exc = "RegistrationFailedError" ->
            [mark |-> "used", error |-> "Registration failed"]
      [] exc = "Exception" ->
            [mark |-> "failed", error |-> "Unexpected error"]

\* create_account without its last clause, `except Exception`
CaughtNamedOnly(exc) ==
    exc \in {"EmailVerificationError", "KasadaSolverError", "VerificationFailedError",
             "RegistrationFailedError"}

\* the exception classes some except clause of create_account matches
Caught(exc) ==
    exc \in {"EmailVerificationError", "KasadaSolverError", "VerificationFailedError",
             "RegistrationFailedError", "Exception"}

\* the dict returned by an except clause
FailureResult(exc, email) ==
    [success |-> FALSE, error |-> Handler(exc).error, message |-> "str(e)",
     email |-> email]

\* the dict returned after a successful registration
SuccessResult(email) ==
    [success |-> TRUE, email |-> email, username |-> "username",
     password |-> "password", birthdate |-> "birthdate",
     verification_code |-> "code", account_data |-> "account_data"]

PipeInit ==
    /\ rpc = [r \in Runs |-> "idle"]
    /\ remail = [r \in Runs |-> None]
    /\ rresult = [r \in Runs |-> NoResult]
    /\ rraised = [r \in Runs |-> FALSE]
    /\ rfail = [r \in Runs |-> NoFail]
    /\ kicks = <<>>
    /\ rcalls = [r \in Runs |-> <<>>]
    /\ rtoken = [r \in Runs |-> None]

\* the run leaves the try block with exception exc at `stage`
FailRun(r, stage, outcome) ==
    LET exc == Raised(stage, outcome)
        email == remail'[r]
    IN  /\ rpc' = [rpc EXCEPT ![r] = "done"]
        /\ rfail' = [rfail EXCEPT ![r] = [stage |-> stage, outcome |-> outcome]]
        /\ last_call' = IF Caught(exc) /\ email # None
                            THEN IF Handler(exc).mark = "used" THEN "mark_as_used"
                                 ELSE "mark_as_failed"
                         ELSE IF stage = "acquire" THEN "get_next_email"
                         ELSE last_call
        /\ IF Caught(exc)
              THEN /\ rresult' = [rresult EXCEPT ![r] = FailureResult(exc, email)]
                   /\ rraised' = [rraised EXCEPT ![r] = FALSE]
                   /\ IF email # None /\ Handler(exc).mark = "used"
                         THEN /\ used_emails' = UsedAfterMarkUsed(used_emails, failed_emails, email)
                              /\ available_emails' = Without(available_emails, email)
                              /\ UNCHANGED failed_emails
                      ELSE IF email # None
                         THEN /\ failed_emails' = FailedAfterMarkFailed(used_emails, failed_emails, email)
                              /\ available_emails' = Without(available_emails, email)
                              /\ UNCHANGED used_emails
                      ELSE UNCHANGED <<available_emails, used_emails, failed_emails>>
           ELSE /\ rresult' = [rresult EXCEPT ![r] = NoResult]
                /\ rraised' = [rraised EXCEPT ![r] = TRUE]
                /\ UNCHANGED <<available_emails, used_emails, failed_emails>>

\* create_account up to its first await: step 1, get_next_email
StartRun(r) ==
    /\ pool_ok
    /\ rpc[r] \in {"idle", "done"}
    /\ nextRet' = GetNextEmailResult(available_emails)
    /\ IF nextRet' = "EmailPoolEmptyError"
          THEN /\ remail' = [remail EXCEPT ![r] = None]
               /\ FailRun(r, "acquire", "fail")
       ELSE /\ remail' = [remail EXCEPT ![r] = nextRet'[1]]
            /\ rpc' = [rpc EXCEPT ![r] = "solve"]
            /\ rfail' = [rfail EXCEPT ![r] = NoFail]
            /\ rresult' = [rresult EXCEPT ![r] = NoResult]
            /\ rraised' = [rraised EXCEPT ![r] = FALSE]
            /\ last_call' = "get_next_email"
            /\ UNCHANGED <<available_emails, used_emails, failed_emails>>
    /\ rcalls' = [rcalls EXCEPT ![r] = <<>>]
    /\ rtoken' = [rtoken EXCEPT ![r] = None]
    /\ UNCHANGED <<source, pool_ok, kicks>>

\* the call a stage makes
CallOf(stage) == IF stage = "await" THEN "mailbox" ELSE stage

\* steps 2 to 5: kasada_solver.solve, _send_verification_email,
\* get_verification_code, _verify_email_code
StageStep(r, stage, nextStage, outcome) ==
    /\ rpc[r] = stage
    /\ remail' = remail
    /\ rcalls' = [rcalls EXCEPT ![r] = Append(@, CallOf(stage))]
    /\ IF outcome = "ok"
          THEN /\ rpc' = [rpc EXCEPT ![r] = nextStage]
               /\ UNCHANGED <<available_emails, used_emails, failed_emails, rresult, rraised,
                              rfail, last_call>>
       ELSE FailRun(r, stage, outcome)
    /\ UNCHANGED <<source, pool_ok, nextRet, kicks>>

Solve(r) == (\E o \in Outcomes : StageStep(r, "solve", "send", o)) /\ UNCHANGED rtoken
Send(r) == (\E o \in Outcomes : StageStep(r, "send", "await", o)) /\ UNCHANGED rtoken
Await(r) == (\E o \in Outcomes : StageStep(r, "await", "verify", o)) /\ UNCHANGED rtoken

\* what the verify endpoint answers: 200 with a token, 200 with an empty
\* token, 200 without a token, another status; or _make_request raises
VerifyReplies == {"token", "empty token", "no token", "error status", "raises"}

\* _verify_email_code: the token it returns
VerifyEmailCode(reply) ==
    CASE reply = "token" -> "token"
      [] reply = "empty token" -> ""
      [] OTHER -> None

\* a run that goes on with whatever _verify_email_code returned
TokenAny(token) == TRUE

\* `if not verification_token: raise VerificationFailedError`
TokenOk(token) == token \notin {None, ""}

\* step 5, _verify_email_code and the test of the token
Verify(r) ==
    \E reply \in VerifyReplies :
        IF reply = "raises"
           THEN StageStep(r, "verify", "register", "exc") /\ UNCHANGED rtoken
        ELSE IF TokenOk(VerifyEmailCode(reply))
           THEN /\ StageStep(r, "verify", "register", "ok")
                /\ rtoken' = [rtoken EXCEPT ![r] = VerifyEmailCode(reply)]
        ELSE StageStep(r, "verify", "register", "fail") /\ UNCHANGED rtoken

\* _save_account: the new content of output_file; a failure is logged only
SaveAccount(accounts, record, saved) ==
    IF saved THEN Append(accounts, record) ELSE accounts

\* _save_account passes the exception of a failed write on to its caller
SaveRaisesWhenNotSaved(saved) == ~saved

\* _save_account: `except Exception` logs the failure, nothing is raised
SaveRaises(saved) == FALSE

\* step 6, _register_account, then mark_as_used, _save_account and return;
\* an exception out of _save_account would reach `except Exception` of
\* create_account after mark_as_used
Register(r) ==
    /\ rpc[r] = "register"
    /\ remail' = remail
    /\ rtoken' = rtoken
    /\ \E o \in Outcomes :
          IF o = "ok"
             THEN /\ rcalls' = [rcalls EXCEPT ![r] = @ \o <<"register", "save">>]
                  /\ used_emails' = UsedAfterMarkUsed(used_emails, failed_emails, remail[r])
                  /\ available_emails' = Without(available_emails, remail[r])
                  /\ rraised' = rraised
                  /\ rpc' = [rpc EXCEPT ![r] = "done"]
                  /\ \E saved \in BOOLEAN :
                        /\ kicks' = SaveAccount(kicks, remail[r], saved)
                        /\ IF SaveRaises(saved)
                              THEN /\ failed_emails' =
                                         FailedAfterMarkFailed(used_emails', failed_emails,
                                                               remail[r])
                                   /\ rresult' = [rresult EXCEPT ![r] =
                                                     FailureResult("Exception", remail[r])]
                                   /\ rfail' = [rfail EXCEPT ![r] =
                                                   [stage |-> "save", outcome |-> "exc"]]
                                   /\ last_call' = "mark_as_failed"
                           ELSE /\ UNCHANGED failed_emails
                                /\ rresult' = [rresult EXCEPT ![r] = SuccessResult(remail[r])]
                                /\ rfail' = rfail
                                /\ last_call' = "mark_as_used"
          ELSE /\ rcalls' = [rcalls EXCEPT ![r] = Append(@, "register")]
               /\ FailRun(r, "register", o)
               /\ UNCHANGED kicks
    /\ UNCHANGED <<source, pool_ok, nextRet>>

(***************************************************************************)
(* Queue / broker and WorkerDaemon                                         *)
(***************************************************************************)
Workers == {"w1", "w2"}
JobIds == {"j1", "j2"}

STATUS_PENDING == "pending"
STATUS_RUNNING == "running"
STATUS_COMPLETED == "completed"
STATUS_FAILED == "failed"

\* a payload on the queue: json is FALSE for text that json.loads rejects,
\* id is None for a job without "id"
NoJob == [json |-> FALSE, id |-> None, count |-> 0, retry_count |-> 0]
Payload(id, count, retry) == [json |-> TRUE, id |-> id, count |-> count, retry_count |-> retry]
JunkPayloads == {NoJob, Payload(None, 1, 0)}
JunkName(p) == IF p.json THEN "no id" ELSE "bad json"

\* what self.account_creator can hold: nothing (as __init__ leaves it), a
\* plain callable put there by the embedding code, a KickAccountCreator,
\* whose create_account is a coroutine function, or the MockAccountCreator
\* of the tests, which creates an account at every call
CreatorKinds == {None, "callable", "KickAccountCreator", "MockAccountCreator"}

\* what one create_account call in the executor gives back:
\*   ok    a result dict with success = True
\*   fail  a result dict with success = False
\*   none  None
\*   ace   raises AccountCreationError
\*   exc   raises another exception
\*   coro  a coroutine object (never awaited)
UnitOutcomes(creator) ==
    IF creator = "KickAccountCreator" THEN {"coro"}
    ELSE IF creator = "MockAccountCreator" THEN {"ok"}
    ELSE {"ok", "fail", "none", "ace", "exc"}

\* `if account_data:` in process_job
Truthy(outcome) == outcome \in {"ok", "fail", "coro"}

\* the call returned normally and account_data.get('username') works
HasGet(outcome) == outcome \in {"ok", "fail"}

\* `retry_count < self.max_retries`
ShouldRetry(retry_count, max_retries) == retry_count < max_retries

\* "Determine final status": the branch process_job takes after the loop
Classify(n_created, count) ==
    IF n_created = count THEN "success"
    ELSE IF n_created > 0 THEN "partial"
    ELSE "failure"

BrokerInit ==
    /\ queue = <<>>
    /\ status = [j \in JobIds |-> None]
    /\ error_key = [j \in JobIds |-> FALSE]
    /\ statusLog = [j \in JobIds |-> <<>>]
    /\ events = [j \in JobIds |-> <<>>]
    /\ enqueued = {}

WorkerInit(ws) ==
    /\ alive = [w \in Workers |-> w \in ws]
    /\ shutdown_requested = [w \in Workers |-> FALSE]
    /\ account_creator \in [Workers -> CreatorKinds]
    /\ \A w \in Workers \ ws : account_creator[w] = None
    /\ wpc = [w \in Workers |-> IF w \in ws THEN "loop" ELSE "off"]
    /\ job_data = [w \in Workers |-> NoJob]
    /\ accounts_created = [w \in Workers |-> <<>>]
    /\ errors = [w \in Workers |-> 0]
    /\ unit_i = [w \in Workers |-> 0]
    /\ pipeline_runs = [w \in Workers |-> 0]
    /\ health = [w \in Workers |->
                    [key |-> 0, sleep |-> 0, pc |-> IF w \in ws THEN "created" ELSE "none"]]
    /\ aged = [w \in Workers |-> FALSE]

\* the producer: rpush of the payload and the initial status
Enqueue(j, count) ==
    /\ j \notin enqueued
    /\ enqueued' = enqueued \cup {j}
    /\ queue' = Append(queue, Payload(j, count, 0))
    /\ status' = [status EXCEPT ![j] = STATUS_PENDING]
    /\ statusLog' = [statusLog EXCEPT ![j] = Append(@, STATUS_PENDING)]
    /\ UNCHANGED <<error_key, events, workerVars>>

\* a payload the worker cannot process reaches the queue
EnqueueJunk(p) ==
    /\ JunkName(p) \notin enqueued
    /\ enqueued' = enqueued \cup {JunkName(p)}
    /\ queue' = Append(queue, p)
    /\ UNCHANGED <<status, error_key, statusLog, events, workerVars>>

\* json.dumps(result) of update_job_status: a coroutine object among the
\* accounts makes it raise TypeError
Serialisable(accounts) == \A i \in 1..Len(accounts) : accounts[i] # "coro"

\* update_job_status: set the status key, store error and result, publish
\* the update; an exception on the way is logged and ends the call
UpdateJobStatus(w, job_id, new_status, error_msg, result_ok) ==
    /\ status' = [status EXCEPT ![job_id] = new_status]
    /\ error_key' = [error_key EXCEPT ![job_id] = @ \/ error_msg]
    /\ statusLog' = [statusLog EXCEPT ![job_id] = Append(@, new_status)]
    /\ events' = IF result_ok
                    THEN [events EXCEPT ![job_id] =
                            Append(@, [status |-> new_status, worker_id |-> w,
                                       error |-> error_msg])]
                 ELSE events

\* process_job returns: its locals are gone
Return(w) ==
    /\ wpc' = [wpc EXCEPT ![w] = "loop"]
    /\ job_data' = [job_data EXCEPT ![w] = NoJob]
    /\ accounts_created' = [accounts_created EXCEPT ![w] = <<>>]
    /\ errors' = [errors EXCEPT ![w] = 0]
    /\ unit_i' = [unit_i EXCEPT ![w] = 0]
    /\ pipeline_runs' = [pipeline_runs EXCEPT ![w] = 0]

\* work_loop: the while condition
LoopCheck(w) ==
    /\ alive[w]
    /\ wpc[w] = "loop"
    /\ wpc' = [wpc EXCEPT ![w] = IF shutdown_requested[w] THEN "stopped" ELSE "blpop"]
    /\ UNCHANGED <<brokerVars, alive, shutdown_requested, account_creator, job_data,
                   accounts_created, errors, unit_i, pipeline_runs>>

\* a read of the head that leaves it on the list (lindex instead of blpop)
QueueAfterPeek(q) == q

\* blpop on a non-empty list: what is left at QUEUE_KEY
QueueAfterPop(q) == Tail(q)

\* a payload that json.loads rejects is dropped, any other is processed
DiscardedBadJson(payload) == ~payload.json

\* work_loop drops a payload that json.loads rejects (JSONDecodeError,
\* `continue`); process_job returns at once for a job without id
Discarded(payload) == ~payload.json \/ payload.id = None

\* work_loop: blpop returns None, or a payload that is parsed and handed to
\* process_job, which returns at once for a job without id
Blpop(w) ==
    /\ alive[w]
    /\ wpc[w] = "blpop"
    /\ IF queue = <<>>
          THEN /\ wpc' = [wpc EXCEPT ![w] = "loop"]
               /\ UNCHANGED <<queue, job_data>>
       ELSE /\ queue' = QueueAfterPop(queue)
            /\ IF Discarded(Head(queue))
                  THEN /\ wpc' = [wpc EXCEPT ![w] = "loop"]
                       /\ UNCHANGED job_data
               ELSE /\ wpc' = [wpc EXCEPT ![w] = "set_running"]
                    /\ job_data' = [job_data EXCEPT ![w] = Head(queue)]
    /\ UNCHANGED <<status, error_key, statusLog, events, enqueued, alive,
                   shutdown_requested, account_creator, accounts_created, errors, unit_i,
                   pipeline_runs>>

\* process_job: status running, then the account creator is constructed
\* when none is set; KickAccountCreator() without arguments raises TypeError
SetRunning(w) ==
    /\ alive[w]
    /\ wpc[w] = "set_running"
    /\ UpdateJobStatus(w, job_data[w].id, STATUS_RUNNING, FALSE, TRUE)
    /\ wpc' = [wpc EXCEPT ![w] = IF account_creator[w] = None THEN "except" ELSE "units"]
    /\ accounts_created' = [accounts_created EXCEPT ![w] = <<>>]
    /\ errors' = [errors EXCEPT ![w] = 0]
    /\ unit_i' = [unit_i EXCEPT ![w] = 0]
    /\ pipeline_runs' = [pipeline_runs EXCEPT ![w] = 0]
    /\ UNCHANGED <<queue, enqueued, alive, shutdown_requested, account_creator, job_data>>

\* one iteration of `for i in range(count)`
RunUnit(w) ==
    /\ alive[w]
    /\ wpc[w] = "units"
    /\ unit_i[w] < job_data[w].count
    /\ \E o \in UnitOutcomes(account_creator[w]) :
          /\ accounts_created' = [accounts_created EXCEPT ![w] =
                                     IF Truthy(o) THEN Append(@, o) ELSE @]
          /\ errors' = [errors EXCEPT ![w] = IF HasGet(o) THEN @ ELSE @ + 1]
          /\ pipeline_runs' = [pipeline_runs EXCEPT ![w] = IF o = "coro" THEN @ ELSE @ + 1]
    /\ unit_i' = [unit_i EXCEPT ![w] = @ + 1]
    /\ UNCHANGED <<brokerVars, alive, shutdown_requested, account_creator, wpc, job_data>>

\* a requeue that pushes the payload as it was popped
RequeueSameCount(w) ==
    /\ job_data' = job_data
    /\ queue' = Append(queue, job_data[w])
    /\ wpc' = [wpc EXCEPT ![w] = "requeued"]
    /\ UNCHANGED <<status, error_key, statusLog, events, accounts_created, errors,
                   unit_i, pipeline_runs>>

\* the requeue: job_data["retry_count"] = retry_count + 1, then rpush
Requeue(w) ==
    /\ job_data' = [job_data EXCEPT ![w].retry_count = @ + 1]
    /\ queue' = Append(queue, job_data'[w])
    /\ wpc' = [wpc EXCEPT ![w] = "requeued"]
    /\ UNCHANGED <<status, error_key, statusLog, events, accounts_created, errors,
                   unit_i, pipeline_runs>>

\* process_job after the loop: completed, or the first step of the
\* total-failure branch
Finish(w) ==
    /\ alive[w]
    /\ wpc[w] = "units"
    /\ unit_i[w] = job_data[w].count
    /\ LET c == Classify(Len(accounts_created[w]), job_data[w].count)
       IN  IF c \in {"success", "partial"}
              THEN /\ UpdateJobStatus(w, job_data[w].id, STATUS_COMPLETED, c = "partial",
                                   Serialisable(accounts_created[w]))
                   /\ Return(w)
                   /\ UNCHANGED queue
           ELSE IF ShouldRetry(job_data[w].retry_count, MaxRetries)
              THEN Requeue(w)
           ELSE /\ UpdateJobStatus(w, job_data[w].id, STATUS_FAILED, TRUE, TRUE)
                /\ Return(w)
                /\ UNCHANGED queue
    /\ UNCHANGED <<enqueued, alive, shutdown_requested, account_creator>>

\* process_job: `except Exception` around the whole attempt
Except(w) ==
    /\ alive[w]
    /\ wpc[w] = "except"
    /\ IF ShouldRetry(job_data[w].retry_count, MaxRetries)
          THEN Requeue(w)
       ELSE /\ UpdateJobStatus(w, job_data[w].id, STATUS_FAILED, TRUE, TRUE)
            /\ Return(w)
            /\ UNCHANGED queue
    /\ UNCHANGED <<enqueued, alive, shutdown_requested, account_creator>>

\* the status write that follows the rpush of a requeue
RequeueStatus(w) ==
    /\ alive[w]
    /\ wpc[w] = "requeued"
    /\ UpdateJobStatus(w, job_data[w].id, STATUS_PENDING, FALSE, TRUE)
    /\ Return(w)
    /\ UNCHANGED <<queue, enqueued, alive, shutdown_requested, account_creator>>

\* handle_shutdown: SIGTERM or SIGINT
HandleShutdown(w) ==
    /\ alive[w]
    /\ wpc[w] # "stopped"
    /\ ~shutdown_requested[w]
    /\ shutdown_requested' = [shutdown_requested EXCEPT ![w] = TRUE]
    /\ UNCHANGED <<brokerVars, alive, account_creator, wpc, job_data,
                   accounts_created, errors, unit_i, pipeline_runs>>

\* the worker process dies (kill -9, power loss); its memory is gone
Crash(w) ==
    /\ alive[w]
    /\ wpc[w] # "stopped"
    /\ alive' = [alive EXCEPT ![w] = FALSE]
    /\ wpc' = [wpc EXCEPT ![w] = "off"]
    /\ shutdown_requested' = [shutdown_requested EXCEPT ![w] = FALSE]
    /\ account_creator' = [account_creator EXCEPT ![w] = None]
    /\ job_data' = [job_data EXCEPT ![w] = NoJob]
    /\ accounts_created' = [accounts_created EXCEPT ![w] = <<>>]
    /\ errors' = [errors EXCEPT ![w] = 0]
    /\ unit_i' = [unit_i EXCEPT ![w] = 0]
    /\ pipeline_runs' = [pipeline_runs EXCEPT ![w] = 0]
    /\ UNCHANGED brokerVars

\* work_loop: blpop raises (a connection error, a socket timeout); the
\* handler sleeps and the loop goes on
BlpopRaises(w) ==
    /\ alive[w]
    /\ wpc[w] = "blpop"
    /\ wpc' = [wpc EXCEPT ![w] = "loop"]
    /\ UNCHANGED <<brokerVars, alive, shutdown_requested, account_creator, job_data,
                   accounts_created, errors, unit_i, pipeline_runs>>

(***************************************************************************)
(* The liveness record and the health check task                           *)
(***************************************************************************)
BLPOP_TIMEOUT == 5

\* the sleeps of the exception handlers of work_loop
ErrorSleeps == {1, BLPOP_TIMEOUT}

\* how long one create_account call in the executor can take
UnitDurations == {0, BLPOP_TIMEOUT}

\* setex(health_key, self.health_check_interval * 2, ...)
HealthTTL == HealthInterval * 2

Pred(n) == IF n > 0 THEN n - 1 ELSE 0

\* one second passes
Elapse1(h) == [h EXCEPT !.key = Pred(@), !.sleep = Pred(@)]

\* the event loop gives the health check task its turn: when the task is
\* ready it tests the loop condition, writes the record and sleeps again
HealthStep(h, stop) ==
    IF h.pc \in {"created", "sleeping"} /\ h.sleep = 0
       THEN IF stop THEN [h EXCEPT !.pc = "ended"]
            ELSE [key |-> HealthTTL, sleep |-> HealthInterval, pc |-> "sleeping"]
    ELSE h

\* d seconds pass inside a synchronous call of the work loop: no other task
\* of the event loop runs
RECURSIVE BlockedFor(_, _)
BlockedFor(h, d) == IF d = 0 THEN h ELSE BlockedFor(Elapse1(h), d - 1)

\* d seconds pass while the work loop is suspended at an await: the event
\* loop runs the health check task whenever it is ready
RECURSIVE YieldFor(_, _, _)
YieldFor(h, d, stop) ==
    LET h0 == HealthStep(h, stop)
    IN  IF d = 0 THEN h0 ELSE YieldFor(Elapse1(h0), d - 1, stop)

\* health_check_task.cancel() and the await of the task: CancelledError is
\* thrown into the task where it sleeps, or it never starts
CancelHealth(h) == [h EXCEPT !.pc = "ended"]

\* disconnect_redis without its delete
KeepHealthKey(h) == h

\* disconnect_redis: delete(health_key)
DeleteHealthKey(h) == [h EXCEPT !.key = 0]

\* time d passes for worker w, with the event loop free or not
Pass(w, d, free) ==
    /\ health' = [health EXCEPT ![w] =
                     IF free THEN YieldFor(@, d, shutdown_requested[w])
                     ELSE BlockedFor(@, d)]
    /\ aged' = [aged EXCEPT ![w] = @ \/ d > 0]

\* run: the finally block up to the end of `await self.health_check_task`
RunCancel(w) ==
    /\ alive[w]
    /\ wpc[w] = "stopped"
    /\ wpc' = [wpc EXCEPT ![w] = "cleanup"]
    /\ health' = [health EXCEPT ![w] = CancelHealth(@)]
    /\ UNCHANGED <<brokerVars, alive, shutdown_requested, account_creator, job_data,
                   accounts_created, errors, unit_i, pipeline_runs, aged>>

\* run: disconnect_redis and the end of the daemon
RunExit(w) ==
    /\ alive[w]
    /\ wpc[w] = "cleanup"
    /\ wpc' = [wpc EXCEPT ![w] = "exited"]
    /\ health' = [health EXCEPT ![w] = DeleteHealthKey(@)]
    /\ UNCHANGED <<brokerVars, alive, shutdown_requested, account_creator, job_data,
                   accounts_created, errors, unit_i, pipeline_runs, aged>>

(***************************************************************************)
(* EmailVerifier                                                           *)
(***************************************************************************)
LowerCase == <<"a", "b", "c", "d", "e", "f", "g", "h", "i", "j", "k", "l", "m", "n", "o",
               "p", "q", "r", "s", "t", "u", "v", "w", "x", "y", "z">>
UpperCase == <<"A", "B", "C", "D", "E", "F", "G", "H", "I", "J", "K", "L", "M", "N", "O",
               "P", "Q", "R", "S", "T", "U", "V", "W", "X", "Y", "Z">>

\* re.IGNORECASE: the character a pattern's letter is compared with
Lower(c) ==
    IF \E i \in DOMAIN UpperCase : UpperCase[i] = c
       THEN LowerCase[CHOOSE i \in DOMAIN UpperCase : UpperCase[i] = c]
    ELSE c

\* \d, \w and [:\s]
IsDigit(c) == c \in {"0", "1", "2", "3", "4", "5", "6", "7", "8", "9"}
IsWord(c) == IsDigit(c) \/ c = "_" \/ \E i \in DOMAIN LowerCase : Lower(c) = LowerCase[i]
IsSep(c) == c \in {":", " ", "\t", "\n", "\r", "\f"}

Min(a, b) == IF a <= b THEN a ELSE b

\* how many characters from position i on are digits, or separators
RECURSIVE DigitsFrom(_, _)
DigitsFrom(text, i) ==
    IF i <= Len(text) /\ IsDigit(text[i]) THEN 1 + DigitsFrom(text, i + 1) ELSE 0

RECURSIVE SepsFrom(_, _)
SepsFrom(text, i) ==
    IF i <= Len(text) /\ IsSep(text[i]) THEN 1 + SepsFrom(text, i + 1) ELSE 0

\* None, where a text is expected
NoCode == <<>>

\* the patterns, in the order of the list
CODE_PATTERNS ==
    << [kind |-> "generic", label |-> <<>>],
       [kind |-> "label", label |-> <<"c", "o", "d", "e">>],
       [kind |-> "label", label |-> <<"v", "e", "r", "i", "f", "i", "c", "a", "t", "i",
                                      "o", "n">>],
       [kind |-> "label", label |-> <<"c", "o", "n", "f", "i", "r", "m">>],
       [kind |-> "label", label |-> <<"y", "o", "u", "r", " ", "c", "o", "d", "e", " ",
                                      "i", "s">>] >>

\* \b(\d{4,8})\b matches at i: a run of 4 to 8 digits with a word boundary
\* on each side (the greedy repeat cannot stop inside a run of digits)
GenericAt(text, i) ==
    LET n == DigitsFrom(text, i)
    IN  /\ n >= 4 /\ n <= 8
        /\ i = 1 \/ ~IsWord(text[i - 1])
        /\ i + n > Len(text) \/ ~IsWord(text[i + n])

\* label[:\s]+(\d{4,8}) matches at i: the label in any case, one or more
\* separators, then at least 4 digits
LabelAt(label, text, i) ==
    LET n == Len(label)
        s == SepsFrom(text, i + n)
    IN  /\ i + n - 1 <= Len(text)
        /\ \A k \in 1..n : Lower(text[i + k - 1]) = label[k]
        /\ s >= 1
        /\ DigitsFrom(text, i + n + s) >= 4

MatchAt(p, text, i) ==
    IF p.kind = "generic" THEN GenericAt(text, i) ELSE LabelAt(p.label, text, i)

\* matches.group(1) of the match at i: the whole run, or its first 8 digits
Group1(p, text, i) ==
    IF p.kind = "generic" THEN SubSeq(text, i, i + DigitsFrom(text, i) - 1)
    ELSE LET j == i + Len(p.label) + SepsFrom(text, i + Len(p.label))
         IN  SubSeq(text, j, j + Min(DigitsFrom(text, j), 8) - 1)

\* re.search(pattern, text, re.IGNORECASE): the leftmost match
ReSearch(p, text) ==
    IF \E i \in 1..Len(text) : MatchAt(p, text, i)
       THEN LET i == CHOOSE i \in 1..Len(text) :
                        /\ MatchAt(p, text, i)
                        /\ \A k \in 1..(i - 1) : ~MatchAt(p, text, k)
            IN  Group1(p, text, i)
    ELSE NoCode

\* the loop over the patterns: the first pattern that matches decides
RECURSIVE FirstMatch(_, _)
FirstMatch(patterns, text) ==
    IF patterns = <<>> THEN NoCode
    ELSE IF ReSearch(Head(patterns), text) # NoCode THEN ReSearch(Head(patterns), text)
    ELSE FirstMatch(Tail(patterns), text)

\* _extract_code_from_text
ExtractCodeFromText(text) ==
    IF text = <<>> THEN NoCode ELSE FirstMatch(CODE_PATTERNS, text)

\* the loop of _search_verification_email over the messages of the sender,
\* the k-th message and the older ones
RECURSIVE ScanFrom(_, _)
ScanFrom(messages, k) ==
    IF k = 0 THEN NoCode
    ELSE IF ~messages[k].ok THEN ScanFrom(messages, k - 1)
    ELSE IF ExtractCodeFromText(messages[k].subject) # NoCode
            THEN ExtractCodeFromText(messages[k].subject)
    ELSE IF ExtractCodeFromText(messages[k].body) # NoCode
            THEN ExtractCodeFromText(messages[k].body)
    ELSE ScanFrom(messages, k - 1)

\* _search_verification_email on the messages of KICK_EMAIL_SENDER in the
\* inbox, oldest first as the server lists them; imap_ok: select and search
\* answer OK and raise nothing
SearchVerificationEmail(messages, imap_ok) ==
    IF ~imap_ok \/ messages = <<>> THEN NoCode ELSE ScanFrom(messages, Len(messages))

\* texts of subjects and bodies
TextLabelled == <<"c", "o", "d", "e", ":", " ", "1", "2", "3", "4", "5", "6">>
TextRun == <<"9", "9", "9", "9">>
TextBoth == <<"9", "9", "9", "9", " ", "c", "o", "d", "e", ":", " ", "1", "2", "3", "4",
              "5", "6">>
TextPlain == <<"h", "i">>
TextLong == <<"C", "o", "d", "e", " ", "1", "2", "3", "4", "5", "6", "7", "8", "9">>
TextOther == <<"c", "o", "d", "e", ":", " ", "6", "5", "4", "3", "2", "1">>

\* messages of the sender; ok: fetch of the message answers OK
SampleMessages ==
    { [subject |-> TextLabelled, body |-> TextRun, ok |-> TRUE],
      [subject |-> TextPlain, body |-> TextRun, ok |-> TRUE],
      [subject |-> TextBoth, body |-> <<>>, ok |-> TRUE],
      [subject |-> TextPlain, body |-> TextPlain, ok |-> TRUE],
      [subject |-> TextLong, body |-> <<>>, ok |-> TRUE],
      [subject |-> TextOther, body |-> <<>>, ok |-> FALSE] }

VerifierInit(timeouts, intervals) ==
    /\ mailbox = <<>>
    /\ gv_pc = "idle"
    /\ timeout \in timeouts
    /\ poll_interval \in intervals
    /\ now = 0
    /\ code = NoCode
    /\ imap_connection = None
    /\ in_block = FALSE
    /\ conn_call = [op |-> None, raised |-> FALSE]

\* what the server does at connect(): it accepts, it cannot be reached, it
\* rejects the login
ConnectOutcomes == {"ok", "no connection", "login rejected"}

\* connect: self.imap_connection afterwards; the attribute is assigned
\* before login is called
ConnectionAfterConnect(conn, outcome) ==
    IF outcome = "no connection" THEN conn ELSE "IMAP4_SSL"

\* connect raises IMAPLoginError
ConnectRaises(outcome) == outcome # "ok"

\* disconnect: self.imap_connection afterwards, whether logout raises or not
ConnectionAfterDisconnect(conn, logout_ok) == IF conn = None THEN conn ELSE None

\* connect()
Connect(outcome) ==
    /\ gv_pc # "polling"
    /\ imap_connection' = ConnectionAfterConnect(imap_connection, outcome)
    /\ conn_call' = [op |-> "connect", raised |-> ConnectRaises(outcome)]
    /\ UNCHANGED <<mailbox, gv_pc, timeout, poll_interval, now, code, in_block>>

\* disconnect()
Disconnect(logout_ok) ==
    /\ gv_pc # "polling"
    /\ imap_connection' = ConnectionAfterDisconnect(imap_connection, logout_ok)
    /\ conn_call' = [op |-> "disconnect", raised |-> FALSE]
    /\ UNCHANGED <<mailbox, gv_pc, timeout, poll_interval, now, code, in_block>>

\* `async with verifier`: __aenter__; when it raises, the block is not
\* entered and __aexit__ is not called
AEnter(outcome) ==
    /\ ~in_block
    /\ gv_pc # "polling"
    /\ imap_connection' = ConnectionAfterConnect(imap_connection, outcome)
    /\ conn_call' = [op |-> "__aenter__", raised |-> ConnectRaises(outcome)]
    /\ in_block' = ~ConnectRaises(outcome)
    /\ UNCHANGED <<mailbox, gv_pc, timeout, poll_interval, now, code>>

\* the body of the block ends, normally or with an exception: __aexit__
AExit(logout_ok) ==
    /\ in_block
    /\ gv_pc # "polling"
    /\ imap_connection' = ConnectionAfterDisconnect(imap_connection, logout_ok)
    /\ conn_call' = [op |-> "__aexit__", raised |-> FALSE]
    /\ in_block' = FALSE
    /\ UNCHANGED <<mailbox, gv_pc, timeout, poll_interval, now, code>>

\* the mail server receives a message of the sender
Deliver(m) ==
    /\ gv_pc \in {"idle", "polling"}
    /\ Len(mailbox) < MaxMail
    /\ mailbox' = Append(mailbox, m)
    /\ UNCHANGED <<gv_pc, timeout, poll_interval, now, code, imap_connection, in_block,
                   conn_call>>

\* get_verification_code up to the loop: connect, start_time
GetVerificationCode(outcome) ==
    /\ gv_pc = "idle"
    /\ IF imap_connection = None
          THEN /\ imap_connection' = ConnectionAfterConnect(imap_connection, outcome)
               /\ conn_call' = [op |-> "connect", raised |-> ConnectRaises(outcome)]
               /\ gv_pc' = IF ConnectRaises(outcome) THEN "IMAPLoginError" ELSE "polling"
       ELSE /\ gv_pc' = "polling"
            /\ UNCHANGED <<imap_connection, conn_call>>
    /\ now' = 0
    /\ UNCHANGED <<mailbox, timeout, poll_interval, code, in_block>>

\* one turn of the loop, `now` being time.time() - start_time: the test of
\* elapsed, the search in the executor, which takes d, and the sleep of
\* wait_time, computed from the elapsed of before the search
Poll(d, imap_ok) ==
    /\ gv_pc = "polling"
    /\ IF now > timeout
          THEN /\ gv_pc' = "NoEmailReceivedError"
               /\ UNCHANGED <<now, code>>
       ELSE LET found == SearchVerificationEmail(mailbox, imap_ok)
                wait_time == Min(poll_interval, timeout - now)
            IN  IF found # NoCode
                   THEN /\ gv_pc' = "returned"
                        /\ code' = found
                        /\ now' = now + d
                ELSE /\ gv_pc' = gv_pc
                     /\ code' = code
                     /\ now' = now + d + (IF wait_time > 0 THEN wait_time ELSE 0)
    /\ UNCHANGED <<mailbox, timeout, poll_interval, imap_connection, in_block, conn_call>>

(***************************************************************************)
(* KasadaSolver                                                            *)
(***************************************************************************)
MAX_RETRIES == 3

\* what the RapidAPI endpoint can answer to one request: a status (200 with
\* a body that is JSON or not), no answer in TIMEOUT_SECONDS, a failed
\* connection
Responses ==
    {"200", "200 not json", "400", "401", "403", "404", "429", "500", "503",
     "timeout", "connection"}

\* _make_api_request: what it returns or raises for a response
MakeApiRequest(resp) ==
    CASE resp = "200" -> "headers"
      [] resp = "200 not json" -> "KasadaSolverError"
      [] resp = "401" -> "InvalidAPIKeyError"
      [] resp = "429" -> "RateLimitError"
      [] resp = "403" -> "InvalidAPIKeyError"
      [] resp = "timeout" -> "asyncio.TimeoutError"
      [] resp = "connection" -> "aiohttp.ClientError"
      [] OTHER -> "KasadaSolverError"

\* solve re-raises nothing
ReraisedNever(exc) == FALSE

\* the except clauses of solve that re-raise
Reraised(exc) == exc \in {"InvalidAPIKeyError", "RateLimitError"}

\* the other except clauses of solve: last_exception
LastException(exc) ==
    IF exc = "asyncio.TimeoutError" THEN "TimeoutError" ELSE "KasadaSolverError"

\* a sleep of RATE_LIMIT_DELAY between the attempts
BackoffFixed(attempt) == 1

\* backoff_time = 2 ** attempt
Backoff(attempt) == 2 ^ attempt

SolverInit(modes, urls) ==
    /\ solve_pc = "idle"
    /\ test_mode \in modes
    /\ fetch_url \in urls
    /\ calls = <<>>
    /\ sleeps = <<>>
    /\ solve_out = None

\* solve up to the loop: test mode, the check of fetch_url
SolveCall ==
    /\ solve_pc = "idle"
    /\ IF test_mode
          THEN solve_pc' = "returned" /\ solve_out' = "mock headers"
       ELSE IF fetch_url = ""
          THEN solve_pc' = "raised" /\ solve_out' = "ValueError"
       ELSE solve_pc' = "attempt" /\ solve_out' = solve_out
    /\ UNCHANGED <<test_mode, fetch_url, calls, sleeps>>

\* one turn of the loop of solve, the attempt being Len(calls) + 1: the
\* request, its except clause, the backoff sleep; after the last turn,
\* `raise last_exception`
SolveAttempt(resp) ==
    LET attempt == Len(calls) + 1
        out == MakeApiRequest(resp)
    IN  /\ solve_pc = "attempt"
        /\ calls' = Append(calls, resp)
        /\ IF out = "headers"
              THEN solve_pc' = "returned" /\ solve_out' = out /\ sleeps' = sleeps
           ELSE IF Reraised(out)
              THEN solve_pc' = "raised" /\ solve_out' = out /\ sleeps' = sleeps
           ELSE IF attempt < MAX_RETRIES
              THEN /\ solve_pc' = solve_pc
                   /\ solve_out' = solve_out
                   /\ sleeps' = Append(sleeps, Backoff(attempt))
           ELSE /\ solve_pc' = "raised"
                /\ solve_out' = LastException(out)
                /\ sleeps' = sleeps
        /\ UNCHANGED <<test_mode, fetch_url>>

\* ---- _enforce_rate_limit ----
RATE_LIMIT_DELAY == 1
MaxClock == 4
MaxCalls == 3

\* the tasks that call solve on the same client
Tasks == {"t1", "t2"}

\* __init__: last_request_time = 0; time.time() is far from 0
RateInit ==
    /\ clock = RATE_LIMIT_DELAY
    /\ last_request_time = 0
    /\ rl_pc = [t \in Tasks |-> "idle"]
    /\ wake = [t \in Tasks |-> 0]
    /\ starts = <<>>

\* wait_time = RATE_LIMIT_DELAY - time_since_last_request
WaitTime(time_since_last_request) == RATE_LIMIT_DELAY - time_since_last_request

\* the number of tasks in `await asyncio.sleep(wait_time)`
Sleeping == Cardinality({t \in Tasks : rl_pc[t] = "sleeping"})

\* _enforce_rate_limit up to its await: it reads the clock and
\* last_request_time; with no wait it goes on to write last_request_time,
\* and solve starts the request
EnforceRateLimit(t) ==
    LET current_time == clock
        time_since_last_request == current_time - last_request_time
    IN  /\ rl_pc[t] = "idle"
        /\ Len(starts) + Sleeping < MaxCalls
        /\ IF time_since_last_request < RATE_LIMIT_DELAY
              THEN /\ rl_pc' = [rl_pc EXCEPT ![t] = "sleeping"]
                   /\ wake' = [wake EXCEPT ![t] = current_time + WaitTime(time_since_last_request)]
                   /\ UNCHANGED <<last_request_time, starts>>
              ELSE /\ rl_pc' = [rl_pc EXCEPT ![t] = "calling"]
                   /\ last_request_time' = clock
                   /\ starts' = Append(starts, clock)
                   /\ wake' = wake
        /\ clock' = clock

\* _enforce_rate_limit after its sleep: last_request_time = time.time(),
\* and solve starts the request
EnforceRateLimitResume(t) ==
    /\ rl_pc[t] = "sleeping"
    /\ clock >= wake[t]
    /\ rl_pc' = [rl_pc EXCEPT ![t] = "calling"]
    /\ last_request_time' = clock
    /\ starts' = Append(starts, clock)
    /\ UNCHANGED <<clock, wake>>

\* the request of a task ends: solve returns, raises, or goes to its next
\* attempt; the task may call _enforce_rate_limit again
RequestEnds(t) ==
    /\ rl_pc[t] = "calling"
    /\ rl_pc' = [rl_pc EXCEPT ![t] = "idle"]
    /\ UNCHANGED <<clock, last_request_time, wake, starts>>

\* a second passes
Tick ==
    /\ clock < MaxClock
    /\ clock' = clock + 1
    /\ UNCHANGED <<last_request_time, rl_pc, wake, starts>>

\* ---- KickAccountCreator._make_request ----
RETRY_ATTEMPTS == 3
RETRY_DELAY == 5

\* what session.request ends in: a response, by its status, or an exception
HttpResponses ==
    {"200", "201", "302", "404", "429", "500", "503",
     "asyncio.TimeoutError", "aiohttp.ClientError"}

HttpExceptions == {"asyncio.TimeoutError", "aiohttp.ClientError"}

\* response.status
StatusOf(resp) ==
    CASE resp = "200" -> 200
      [] resp = "201" -> 201
      [] resp = "302" -> 302
      [] resp = "404" -> 404
      [] resp = "429" -> 429
      [] resp = "500" -> 500
      [] resp = "503" -> 503

\* a return on status 200 only
ReturnedOn200(st) == st = 200

\* `if status == 200: return` and `elif status < 500: return`
ReturnedAtOnce(st) == st = 200 \/ st < 500

\* attempts = self.RETRY_ATTEMPTS if retry else 1
Attempts(retry) == IF retry THEN RETRY_ATTEMPTS ELSE 1

HttpInit ==
    /\ http_pc = "idle"
    /\ http_retry = TRUE
    /\ http_calls = <<>>
    /\ http_sleeps = <<>>
    /\ http_out = None

\* _make_request up to its loop
MakeRequestCall(retry) ==
    /\ http_pc = "idle"
    /\ http_pc' = "attempt"
    /\ http_retry' = retry
    /\ UNCHANGED <<http_calls, http_sleeps, http_out>>

\* one turn of the loop of _make_request, the attempt being
\* Len(http_calls) + 1: the request, the return or the sleep that follows
MakeRequestAttempt(resp) ==
    LET attempt == Len(http_calls) + 1
        attempts == Attempts(http_retry)
    IN  /\ http_pc = "attempt"
        /\ http_calls' = Append(http_calls, resp)
        /\ IF resp \notin HttpExceptions /\ ReturnedAtOnce(StatusOf(resp))
              THEN /\ http_pc' = "returned"
                   /\ http_out' = resp
                   /\ http_sleeps' = http_sleeps
           ELSE IF attempt < attempts
              THEN /\ http_pc' = http_pc
                   /\ http_out' = http_out
                   /\ http_sleeps' = Append(http_sleeps, RETRY_DELAY)
           ELSE /\ http_pc' = IF resp \in HttpExceptions THEN "raised" ELSE "returned"
                /\ http_out' = resp
                /\ http_sleeps' = http_sleeps
        /\ UNCHANGED http_retry

\* ---- KickAccountCreator._save_account ----
MaxSaves == 2

\* the pipeline instances that have the same output_file, each in a
\* process of its own
Savers == {"p1", "p2"}

\* the record of the n-th account an instance saves
Record(p, n) == <<p, n>>

SaveInit ==
    /\ output_file = <<>>
    /\ save_pc = [p \in Savers |-> "idle"]
    /\ save_accounts = [p \in Savers |-> <<>>]
    /\ saves = [p \in Savers |-> 0]

\* a write that adds the record to what the file holds at that time
DumpAppended(file, loaded, record) == Append(file, record)

\* accounts.append(...), json.dump(accounts, f): the file is replaced by
\* the list that was loaded, with the record at its end
Dump(file, loaded, record) == Append(loaded, record)

\* _save_account up to the end of the read: accounts = json.load(f), or []
\* when the file does not exist
SaveLoad(p) ==
    /\ save_pc[p] = "idle"
    /\ saves[p] < MaxSaves
    /\ save_accounts' = [save_accounts EXCEPT ![p] = output_file]
    /\ save_pc' = [save_pc EXCEPT ![p] = "loaded"]
    /\ UNCHANGED <<output_file, saves>>

\* _save_account from the append to its end
SaveDump(p) ==
    /\ save_pc[p] = "loaded"
    /\ output_file' = Dump(output_file, save_accounts[p], Record(p, saves[p] + 1))
    /\ saves' = [saves EXCEPT ![p] = @ + 1]
    /\ save_pc' = [save_pc EXCEPT ![p] = "idle"]
    /\ save_accounts' = [save_accounts EXCEPT ![p] = <<>>]

(***************************************************************************)
(* Specifications                                                          *)
(***************************************************************************)
\* a part of the system that a specification leaves out stays as constructed
PoolIdle == UNCHANGED poolVars
PipeIdle == UNCHANGED pipeVars
BrokerIdle == UNCHANGED brokerVars
WorkersIdle == UNCHANGED <<workerVars, healthVars>>
HealthIdle == UNCHANGED healthVars
MailIdle == UNCHANGED mailVars
SolverIdle == UNCHANGED solverVars
ExtrasIdle == UNCHANGED extraVars
ServicesIdle == MailIdle /\ SolverIdle /\ ExtrasIdle

\* a verifier and a solver that are constructed and never called
ExtrasInit == RateInit /\ HttpInit /\ SaveInit
ServicesInit ==
    VerifierInit({MaxTimeout}, {MaxPoll}) /\ SolverInit({FALSE}, {"url"}) /\ ExtrasInit

\* the pool of a pipeline: the first n credentials, one per line
PipeSources == {[i \in 1..n |-> CredLine(i)] : n \in 0..MaxPool}

\* ---- the pool alone, under any sequence of calls ----
InitPool ==
    PoolInit(Sources) /\ PipeInit /\ BrokerInit /\ WorkerInit({}) /\ ServicesInit

PoolGet == GetNextEmail /\ PipeIdle /\ BrokerIdle /\ WorkersIdle /\ ServicesIdle
PoolMarkUsed == (\E e \in Identifiers : MarkAsUsed(e)) /\ PipeIdle /\ BrokerIdle /\ WorkersIdle /\ ServicesIdle
PoolMarkFailed == (\E e \in Identifiers : MarkAsFailed(e)) /\ PipeIdle /\ BrokerIdle /\ WorkersIdle /\ ServicesIdle
PoolReload == Reload /\ PipeIdle /\ BrokerIdle /\ WorkersIdle /\ ServicesIdle

NextPool == PoolGet \/ PoolMarkUsed \/ PoolMarkFailed \/ PoolReload

SpecPool == InitPool /\ [][NextPool]_vars

\* ---- the pool alone, with a source that gets new lines ----
\* the lines of such a source: two credentials, the first identifier with
\* another password, a comment
ReloadLines ==
    {l \in SampleLines : l \in {CredLine(1), <<" ", "b", "@", ".", ":", "q", " ">>,
                                 <<"a", "@", ".", ":", "z">>, <<"#", "c">>}}

InitReload ==
    /\ PoolInit(SeqsUpTo(ReloadLines, MaxLines)) /\ PipeInit /\ BrokerInit /\ WorkerInit({})
    /\ ServicesInit

PoolAppend == (\E l \in ReloadLines : AppendLine(l)) /\ PipeIdle /\ BrokerIdle /\ WorkersIdle /\ ServicesIdle

NextReload == NextPool \/ PoolAppend

SpecReload == InitReload /\ [][NextReload]_vars

\* ---- pipeline runs on one pool, overlapping in time ----
InitPipe ==
    PoolInit(PipeSources) /\ PipeInit /\ BrokerInit /\ WorkerInit({}) /\ ServicesInit

RunStart == (\E r \in Runs : StartRun(r)) /\ BrokerIdle /\ WorkersIdle /\ ServicesIdle
RunSolve == (\E r \in Runs : Solve(r)) /\ BrokerIdle /\ WorkersIdle /\ ServicesIdle
RunSend == (\E r \in Runs : Send(r)) /\ BrokerIdle /\ WorkersIdle /\ ServicesIdle
RunAwait == (\E r \in Runs : Await(r)) /\ BrokerIdle /\ WorkersIdle /\ ServicesIdle
RunVerify == (\E r \in Runs : Verify(r)) /\ BrokerIdle /\ WorkersIdle /\ ServicesIdle
RunRegister == (\E r \in Runs : Register(r)) /\ BrokerIdle /\ WorkersIdle /\ ServicesIdle

NextPipe == RunStart \/ RunSolve \/ RunSend \/ RunAwait \/ RunVerify \/ RunRegister

SpecPipe == InitPipe /\ [][NextPipe]_vars

\* ---- pipeline runs on one pool, one after the other ----
RunStartAlone ==
    /\ \A r \in Runs : rpc[r] \notin InFlight
    /\ RunStart

NextPipeSeq == RunStartAlone \/ RunSolve \/ RunSend \/ RunAwait \/ RunVerify \/ RunRegister

SpecPipeSeq == InitPipe /\ [][NextPipeSeq]_vars

\* ---- workers on one queue ----
InitIdlePool == PoolInit({<<>>}) /\ PipeInit /\ ServicesInit

Produce == (\E j \in JobIds, c \in 0..MaxCount : Enqueue(j, c)) /\ PoolIdle /\ PipeIdle /\ ServicesIdle /\ HealthIdle
ProduceJunk == (\E p \in JunkPayloads : EnqueueJunk(p)) /\ PoolIdle /\ PipeIdle /\ ServicesIdle /\ HealthIdle

WLoopCheck(ws) == (\E w \in ws : LoopCheck(w)) /\ PoolIdle /\ PipeIdle /\ ServicesIdle /\ HealthIdle
WBlpop(ws) == (\E w \in ws : Blpop(w)) /\ PoolIdle /\ PipeIdle /\ ServicesIdle /\ HealthIdle
WBlpopRaises(ws) == (\E w \in ws : BlpopRaises(w)) /\ PoolIdle /\ PipeIdle /\ ServicesIdle /\ HealthIdle
WSetRunning(ws) == (\E w \in ws : SetRunning(w)) /\ PoolIdle /\ PipeIdle /\ ServicesIdle /\ HealthIdle
WRunUnit(ws) == (\E w \in ws : RunUnit(w)) /\ PoolIdle /\ PipeIdle /\ ServicesIdle /\ HealthIdle
WFinish(ws) == (\E w \in ws : Finish(w)) /\ PoolIdle /\ PipeIdle /\ ServicesIdle /\ HealthIdle
WExcept(ws) == (\E w \in ws : Except(w)) /\ PoolIdle /\ PipeIdle /\ ServicesIdle /\ HealthIdle
WRequeueStatus(ws) == (\E w \in ws : RequeueStatus(w)) /\ PoolIdle /\ PipeIdle /\ ServicesIdle /\ HealthIdle
WHandleShutdown(ws) == (\E w \in ws : HandleShutdown(w)) /\ PoolIdle /\ PipeIdle /\ ServicesIdle /\ HealthIdle
WCrash(ws) == (\E w \in ws : Crash(w)) /\ PoolIdle /\ PipeIdle /\ ServicesIdle /\ HealthIdle

Work(ws) ==
    \/ Produce
    \/ WLoopCheck(ws)
    \/ WBlpop(ws)
    \/ WBlpopRaises(ws)
    \/ WSetRunning(ws)
    \/ WRunUnit(ws)
    \/ WFinish(ws)
    \/ WExcept(ws)
    \/ WRequeueStatus(ws)

\* ---- several workers on one queue, any of which may die ----
Init == InitIdlePool /\ BrokerInit /\ WorkerInit(Workers)

Next == Work(Workers) \/ WCrash(Workers)

Spec == Init /\ [][Next]_vars

\* ---- several workers on one queue, none of which dies; the broker
\* answers every pop in the end and every worker keeps running ----
WorkerStep(w) ==
    \/ WLoopCheck({w})
    \/ WSetRunning({w})
    \/ WRunUnit({w})
    \/ WFinish({w})
    \/ WExcept({w})
    \/ WRequeueStatus({w})

\* every worker is as constructed or holds the account creator of the tests
InitMulti ==
    /\ Init
    /\ \A w \in Workers : account_creator[w] \in {None, "MockAccountCreator"}

NextMulti == Work(Workers)

SpecMulti ==
    /\ InitMulti
    /\ [][NextMulti]_vars
    /\ \A w \in Workers : WF_vars(WorkerStep(w)) /\ SF_vars(WBlpop({w}))

\* ---- a single worker that runs until it is told to stop ----
InitSingle == InitIdlePool /\ BrokerInit /\ WorkerInit({"w1"})

NextSingle == Work({"w1"}) \/ ProduceJunk \/ WHandleShutdown({"w1"})

SpecSingle == InitSingle /\ [][NextSingle]_vars

\* ---- one worker with its health check task, in time ----
ProduceOne == (\E c \in 0..MaxCount : Enqueue("j1", c)) /\ PoolIdle /\ PipeIdle /\ ServicesIdle /\ HealthIdle
TLoopCheck == LoopCheck("w1") /\ PoolIdle /\ PipeIdle /\ ServicesIdle /\ HealthIdle
TBlpop == Blpop("w1") /\ Pass("w1", IF queue = <<>> THEN BLPOP_TIMEOUT ELSE 0, FALSE)
             /\ PoolIdle /\ PipeIdle /\ ServicesIdle
TBlpopRaises == BlpopRaises("w1") /\ (\E d \in ErrorSleeps : Pass("w1", d, TRUE))
                   /\ PoolIdle /\ PipeIdle /\ ServicesIdle
TSetRunning == SetRunning("w1") /\ PoolIdle /\ PipeIdle /\ ServicesIdle /\ HealthIdle
TRunUnit == RunUnit("w1") /\ (\E d \in UnitDurations : Pass("w1", d, TRUE))
               /\ PoolIdle /\ PipeIdle /\ ServicesIdle
TFinish == Finish("w1") /\ PoolIdle /\ PipeIdle /\ ServicesIdle /\ HealthIdle
TExcept == Except("w1") /\ PoolIdle /\ PipeIdle /\ ServicesIdle /\ HealthIdle
TRequeueStatus == RequeueStatus("w1") /\ PoolIdle /\ PipeIdle /\ ServicesIdle /\ HealthIdle
THandleShutdown == HandleShutdown("w1") /\ PoolIdle /\ PipeIdle /\ ServicesIdle /\ HealthIdle
TRunCancel == RunCancel("w1") /\ PoolIdle /\ PipeIdle /\ ServicesIdle
TRunExit == RunExit("w1") /\ PoolIdle /\ PipeIdle /\ ServicesIdle

NextHealth ==
    \/ ProduceOne
    \/ TLoopCheck
    \/ TBlpop
    \/ TBlpopRaises
    \/ TSetRunning
    \/ TRunUnit
    \/ TFinish
    \/ TExcept
    \/ TRequeueStatus
    \/ THandleShutdown
    \/ TRunCancel
    \/ TRunExit

SpecHealth == InitSingle /\ [][NextHealth]_vars

\* ---- one call of get_verification_code on an inbox that receives mail ----
OthersIdle == PoolIdle /\ PipeIdle /\ BrokerIdle /\ WorkersIdle /\ ExtrasIdle

InitVerifier ==
    /\ PoolInit({<<>>}) /\ PipeInit /\ BrokerInit /\ WorkerInit({})
    /\ VerifierInit(0..MaxTimeout, 1..MaxPoll)
    /\ SolverInit({FALSE}, {"url"})
    /\ ExtrasInit

MailDeliver == (\E m \in SampleMessages : Deliver(m)) /\ OthersIdle /\ SolverIdle
MailCall ==
    (\E o \in ConnectOutcomes : GetVerificationCode(o)) /\ OthersIdle /\ SolverIdle
MailPoll ==
    (\E d \in 1..MaxSearch, imap_ok \in BOOLEAN : Poll(d, imap_ok)) /\ OthersIdle /\ SolverIdle

MailConnect == (\E o \in ConnectOutcomes : Connect(o)) /\ OthersIdle /\ SolverIdle
MailDisconnect == (\E ok \in BOOLEAN : Disconnect(ok)) /\ OthersIdle /\ SolverIdle
MailEnter == (\E o \in ConnectOutcomes : AEnter(o)) /\ OthersIdle /\ SolverIdle
MailExit == (\E ok \in BOOLEAN : AExit(ok)) /\ OthersIdle /\ SolverIdle

NextVerifier ==
    \/ MailDeliver
    \/ MailCall
    \/ MailPoll
    \/ MailConnect
    \/ MailDisconnect
    \/ MailEnter
    \/ MailExit

SpecVerifier == InitVerifier /\ [][NextVerifier]_vars

\* ---- one call of solve ----
InitSolver ==
    /\ PoolInit({<<>>}) /\ PipeInit /\ BrokerInit /\ WorkerInit({})
    /\ VerifierInit({MaxTimeout}, {MaxPoll})
    /\ SolverInit(BOOLEAN, {"", "url"})
    /\ ExtrasInit

SolverCall == SolveCall /\ OthersIdle /\ MailIdle
SolverAttempt == (\E resp \in Responses : SolveAttempt(resp)) /\ OthersIdle /\ MailIdle

NextSolver == SolverCall \/ SolverAttempt

SpecSolver == InitSolver /\ [][NextSolver]_vars

\* ---- one call of solve on an event loop that keeps running it ----
SpecSolverLive == SpecSolver /\ WF_vars(NextSolver)

\* ---- tasks that call solve on one client, in time ----
RestIdle == PoolIdle /\ PipeIdle /\ BrokerIdle /\ WorkersIdle /\ MailIdle /\ SolverIdle
RateIdle == UNCHANGED rateVars
HttpIdle == UNCHANGED httpVars
SaveIdle == UNCHANGED saveVars

InitRate ==
    /\ PoolInit({<<>>}) /\ PipeInit /\ BrokerInit /\ WorkerInit({})
    /\ ServicesInit

RateEnforce == (\E t \in Tasks : EnforceRateLimit(t)) /\ RestIdle /\ HttpIdle /\ SaveIdle
RateResume == (\E t \in Tasks : EnforceRateLimitResume(t)) /\ RestIdle /\ HttpIdle /\ SaveIdle
RateRequestEnds == (\E t \in Tasks : RequestEnds(t)) /\ RestIdle /\ HttpIdle /\ SaveIdle
RateTick == Tick /\ RestIdle /\ HttpIdle /\ SaveIdle

NextRate ==
    \/ RateEnforce
    \/ RateResume
    \/ RateRequestEnds
    \/ RateTick

SpecRate == InitRate /\ [][NextRate]_vars

\* ---- one call of _make_request ----
HttpCall ==
    (\E retry \in BOOLEAN : MakeRequestCall(retry)) /\ RestIdle /\ RateIdle /\ SaveIdle
HttpAttempt ==
    (\E resp \in HttpResponses : MakeRequestAttempt(resp)) /\ RestIdle /\ RateIdle /\ SaveIdle

NextHttp == HttpCall \/ HttpAttempt

SpecHttp == InitRate /\ [][NextHttp]_vars

\* ---- pipeline instances in several processes that save to one file ----
SaverLoad == (\E p \in Savers : SaveLoad(p)) /\ RestIdle /\ RateIdle /\ HttpIdle
SaverDump == (\E p \in Savers : SaveDump(p)) /\ RestIdle /\ RateIdle /\ HttpIdle

NextSave == SaverLoad \/ SaverDump

SpecSave == InitRate /\ [][NextSave]_vars

(***************************************************************************)
(* Claims                                                                  *)
(***************************************************************************)
InSet(k, e) ==
    CASE k = "available" -> e \in AvailableIds
      [] k = "used" -> e \in used_emails
      [] k = "failed" -> e \in failed_emails

\* C1: after any sequence of get_next_email, mark_as_used, mark_as_failed and
\* reload calls on a pool loaded from a valid source, every loaded identifier
\* is in exactly one of available, used and failed.
C1_ExactlyOneSet ==
    pool_ok =>
        \A e \in LoadedIds(source) :
            Cardinality({k \in {"available", "used", "failed"} : InSet(k, e)}) = 1

\* C2: two pipeline runs that share one pool and overlap in time never hold
\* the same credential.
C2_NoSharedCredential ==
    \A r1, r2 \in Runs :
        (r1 # r2 /\ rpc[r1] \in InFlight /\ rpc[r2] \in InFlight) => remail[r1] # remail[r2]

\* the run has returned a failure after it had acquired a credential
FailedAt(r, stages) ==
    /\ rpc[r] = "done"
    /\ remail[r] # None
    /\ rfail[r].stage \in stages

\* C3: a run that acquired a credential and fails at Register leaves it in
\* used and not in failed; a run that fails at an earlier stage after the
\* acquisition leaves it in failed and not in used.
C3_CompensationByStage ==
    \A r \in Runs :
        /\ FailedAt(r, {"register"}) =>
              remail[r] \in used_emails /\ remail[r] \notin failed_emails
        /\ FailedAt(r, {"solve", "send", "await", "verify"}) =>
              remail[r] \in failed_emails /\ remail[r] \notin used_emails

\* C4: an unclassified exception at or after Register leaves the acquired
\* credential in used; at an earlier stage it leaves it in failed.
C4_UnclassifiedByStage ==
    \A r \in Runs :
        (rpc[r] = "done" /\ remail[r] # None /\ rfail[r].outcome = "exc") =>
            IF rfail[r].stage = "register"
               THEN remail[r] \in used_emails
            ELSE remail[r] \in failed_emails

\* C5, as amended: create_account never raises to its caller; the result it
\* returns always carries the success flag and the acquired email (or none),
\* and carries an error kind and a message when success is false.
C5_AlwaysAResult ==
    \A r \in Runs :
        /\ ~rraised[r]
        /\ rpc[r] = "done" =>
              /\ {"success", "email"} \subseteq DOMAIN rresult[r]
              /\ rresult[r].email = remail[r]
              /\ ~rresult[r].success => {"error", "message"} \subseteq DOMAIN rresult[r]

\* C5 witness: a run in which the registration call raised has returned its
\* failure result.
C5_Witness ==
    \E r \in Runs :
        /\ rpc[r] = "done"
        /\ rfail[r] = [stage |-> "register", outcome |-> "exc"]
        /\ ~rresult[r].success
        /\ rresult[r].error = "Unexpected error"

\* C5, as stated: create_account never raises and every result carries a
\* success flag, the email, an error kind and a message.
C5_AsStated ==
    \A r \in Runs :
        /\ ~rraised[r]
        /\ rpc[r] = "done" =>
              {"success", "email", "error", "message"} \subseteq DOMAIN rresult[r]

\* the units of the attempt whose result has success = True
Succeeded(accounts) == Cardinality({i \in 1..Len(accounts) : accounts[i] = "ok"})

\* the payload with this id and retry count is on the queue
OnQueue(q, id) == \E i \in 1..Len(q) : q[i].json /\ q[i].id = id

\* worker w is at the end of an attempt in which no unit succeeded, or in
\* the handler of an unexpected error
TotalFailure(w) ==
    \/ wpc[w] = "except"
    \/ /\ wpc[w] = "units"
       /\ unit_i[w] = job_data[w].count
       /\ job_data[w].count > 0
       /\ Succeeded(accounts_created[w]) = 0

\* C6: an attempt that ends in total failure with retry_count < max_retries
\* re-enqueues the job with retry_count + 1 and then sets its status to
\* pending; with retry_count = max_retries it marks the job failed and does
\* not re-enqueue it.
C6_RetryOnTotalFailure ==
    [][\A w \in Workers :
          /\ (alive'[w] /\ TotalFailure(w) /\ wpc'[w] # wpc[w]) =>
                IF job_data[w].retry_count < MaxRetries
                   THEN /\ wpc'[w] = "requeued"
                        /\ queue' = Append(queue, [job_data[w] EXCEPT !.retry_count = @ + 1])
                ELSE /\ status'[job_data[w].id] = STATUS_FAILED
                     /\ queue' = queue
          /\ (alive'[w] /\ wpc[w] = "requeued" /\ wpc'[w] # "requeued") =>
                status'[job_data[w].id] = STATUS_PENDING]_vars

\* C7: a job that was in flight in a worker when that worker died, before
\* the worker recorded completed, failed or a requeue, is still on the queue
\* for a worker to process.
C7_InFlightJobSurvivesCrash ==
    [][\A w \in Workers :
          (alive[w] /\ ~alive'[w] /\ wpc[w] \in {"set_running", "units", "except"}) =>
              OnQueue(queue', job_data[w].id)]_vars

\* C8: the attempt is classified by the success flags of its unit results:
\* completed without error summary iff every unit succeeded, completed with
\* an error summary iff some but not all did, total failure iff none did;
\* a result with success = False is not counted as a created account.
C8_ClassifiedBySuccess ==
    [][\A w \in Workers :
          (/\ alive'[w]
           /\ wpc[w] = "units"
           /\ wpc'[w] # "units"
           /\ job_data[w].count > 0) =>
              LET id == job_data[w].id
                  n == job_data[w].count
                  k == Succeeded(accounts_created[w])
                  completed == status'[id] = STATUS_COMPLETED
              IN  /\ (k = n) <=> (completed /\ ~error_key'[id])
                  /\ (0 < k /\ k < n) <=> (completed /\ error_key'[id])
                  /\ (k = 0) <=> ~completed
                  /\ Len(accounts_created[w]) = k]_vars

\* C9: for a dequeued job with an id the worker sets the status to running
\* before the first pipeline run, and the attempt runs the pipeline exactly
\* count times.
C9_OneRunPerUnit ==
    /\ [](\A w \in Workers :
            (wpc[w] = "units" /\ pipeline_runs[w] > 0) =>
                STATUS_RUNNING \in {statusLog[job_data[w].id][i] :
                                       i \in 1..Len(statusLog[job_data[w].id])})
    /\ [][\A w \in Workers :
            (alive'[w] /\ wpc[w] \in {"units", "except"} /\ wpc'[w] \in {"loop", "requeued"}) =>
                pipeline_runs[w] = job_data[w].count]_vars

AllowedTransitions ==
    { <<STATUS_PENDING, STATUS_RUNNING>>, <<STATUS_RUNNING, STATUS_COMPLETED>>,
      <<STATUS_RUNNING, STATUS_FAILED>>, <<STATUS_RUNNING, STATUS_PENDING>> }

WorkerWrites(j) == IF statusLog[j] = <<>> THEN <<>> ELSE Tail(statusLog[j])

\* C11: every status the worker writes for a job is followed by one published
\* event with the same job id, that status and the worker id, and the events
\* of one job are published in the order of its status writes.
C11_EventPerStatusWrite ==
    \A j \in JobIds :
        /\ Len(events[j]) = Len(WorkerWrites(j))
        /\ \A i \in 1..Len(events[j]) :
              /\ events[j][i].status = WorkerWrites(j)[i]
              /\ events[j][i].worker_id \in Workers

\* worker w is in its work loop and has not been told to stop
Running(w) ==
    /\ alive[w]
    /\ wpc[w] \notin {"off", "stopped", "cleanup", "exited"}
    /\ ~shutdown_requested[w]

\* C12: while the worker is running its liveness record is rewritten at every
\* health_check_interval, also while the queue stays empty, so that the
\* record never expires: once time has passed since the start, the record
\* exists.
C12_HeartbeatWhileRunning ==
    \A w \in Workers : (Running(w) /\ aged[w]) => health[w].key > 0

\* C13: a worker that has received a shutdown signal dequeues no further
\* job, wherever the signal reached it; the signal does not take the worker
\* out of a job in flight.
C13_NoDequeueAfterShutdown ==
    [][\A w \in Workers :
          /\ (shutdown_requested[w] /\ wpc[w] = "loop" /\ wpc'[w] # "loop") =>
                (wpc'[w] = "stopped" /\ queue' = queue)
          /\ (shutdown_requested[w] /\ wpc[w] = "blpop" /\ wpc'[w] # "blpop") =>
                (wpc'[w] = "loop" /\ queue' = queue)
          /\ (shutdown_requested'[w] /\ ~shutdown_requested[w]) =>
                (wpc'[w] = wpc[w] /\ job_data'[w] = job_data[w])]_vars

\* C14: when the run loop of the worker has exited, its liveness record is
\* deleted and the health check task has ended, so that no heartbeat write
\* re-creates the record.
C14_RecordGoneAfterExit ==
    \A w \in Workers :
        wpc[w] = "exited" => (health[w].key = 0 /\ health[w].pc = "ended")

\* C14 witness: a worker whose record had been written has exited.
C14_Witness ==
    \E w \in Workers : wpc[w] = "exited" /\ aged[w] /\ health[w].sleep > 0

\* the places job j is in: its copies on the queue and the workers that hold
\* it in an attempt that has not ended
Places(j) ==
    Cardinality({i \in 1..Len(queue) : queue[i].json /\ queue[i].id = j})
      + Cardinality({w \in Workers : /\ wpc[w] \in {"set_running", "units", "except"}
                                     /\ job_data[w].id = j})

Terminal(j) ==
    \E i \in 1..Len(statusLog[j]) : statusLog[j][i] \in {STATUS_COMPLETED, STATUS_FAILED}

\* every unit of every job succeeds
AllUnitsSucceed == \A w \in Workers : UnitOutcomes(account_creator[w]) = {"ok"}

\* job j was run once, by one worker, and is completed
CompletedOnce(j) ==
    /\ statusLog[j] = <<STATUS_PENDING, STATUS_RUNNING, STATUS_COMPLETED>>
    /\ Places(j) = 0

\* C15: with several workers on one queue every enqueued payload is dequeued
\* by exactly one worker (it is in one place until its job is completed or
\* failed, and in none after); when every unit succeeds every job ends
\* completed after one attempt, with the queue empty and one pipeline run
\* per requested account.
C15_ExactlyOneWorkerPerPayload ==
    /\ [](\A j \in JobIds : j \in enqueued => Places(j) = IF Terminal(j) THEN 0 ELSE 1)
    /\ [][AllUnitsSucceed =>
            \A w \in Workers, j \in JobIds :
               (job_data[w].id = j /\ ~Terminal(j) /\ Terminal(j)') =>
                   (status'[j] = STATUS_COMPLETED /\ pipeline_runs[w] = job_data[w].count)]_vars
    /\ AllUnitsSucceed => \A j \in JobIds : (j \in enqueued) ~> CompletedOnce(j)
    /\ AllUnitsSucceed => <>[](enqueued = JobIds => queue = <<>>)

\* C15 witness: two jobs were taken by two workers at the same time, and
\* both are completed.
C15_Witness ==
    /\ AllUnitsSucceed
    /\ \A j \in JobIds : CompletedOnce(j)
    /\ queue = <<>>
    /\ events["j1"][1].worker_id # events["j2"][1].worker_id

Terminals == used_emails \cup failed_emails

\* C16: used and failed only grow, and an identifier that is in used or in
\* failed is never in available again, also after reload() of a source that
\* still lists it.
C16_TerminalIsForever ==
    /\ [](AvailableIds \cap Terminals = {})
    /\ [][used_emails \subseteq used_emails' /\ failed_emails \subseteq failed_emails']_vars

\* C16 witness: the pool was reloaded from a source that lists an identifier
\* marked before, next to one that is still available.
C16_Witness ==
    /\ last_call = "reload"
    /\ available_emails # <<>>
    /\ \E e \in LoadedIds(source) : e \in Terminals /\ e \notin AvailableIds

C18_ConsecutiveGetsDiffer ==
    (/\ pool_ok
     /\ last_call = "get_next_email"
     /\ Cardinality(AvailableIds) >= 2) =>
        GetNextEmailResult(available_emails)[1] # nextRet[1]

\* C19: mark_as_used(id) and mark_as_failed(id) leave available, used and
\* failed unchanged when id is in used or in failed already, or was never
\* loaded.
C19_MarkOfTerminalIsNoOp ==
    [][\A e \in Identifiers :
          (/\ MarkAsUsed(e) \/ MarkAsFailed(e)
           /\ e \in Terminals \/ e \notin LoadedIds(source)) =>
              UNCHANGED <<available_emails, used_emails, failed_emails>>]_vars

Stats == GetStats(available_emails, used_emails, failed_emails)

\* C20: get_stats().total is |available| + |used| + |failed| and never
\* decreases over mark_as_used, mark_as_failed and reload calls, whatever
\* lines the source holds.
C20_TotalNeverDecreases ==
    /\ [](Stats.total = Len(available_emails) + Cardinality(used_emails)
                           + Cardinality(failed_emails))
    /\ [][pool_ok => Stats'.total >= Stats.total]_vars

\* the valid entries of a source, in source order
ValidEntries(src) == LoadLines(src, <<>>, {}, {}).avail

NotTerminal(entry) == entry[1] \notin Terminals

\* C21: reload() leaves used and failed as they were and rebuilds available,
\* in source order, from the valid entries of the source minus every
\* identifier that is in used or in failed.
C21_ReloadRebuildsAvailable ==
    [][(last_call' = "reload" /\ source' = source /\ ValidSource(source)) =>
          /\ used_emails' = used_emails
          /\ failed_emails' = failed_emails
          /\ available_emails' = SelectSeq(ValidEntries(source), NotTerminal)]_vars

\* C21 witness: the pool was reloaded from a source that lists a used
\* identifier, a failed one and one that is available.
C21_Witness ==
    /\ last_call = "reload"
    /\ ValidSource(source)
    /\ Len(available_emails) >= 1
    /\ used_emails \cap LoadedIds(source) # {}
    /\ failed_emails \cap LoadedIds(source) # {}

\* the line holds something other than spaces, is no comment and has no ':'
NoSeparator(line) ==
    /\ \E k \in 1..Len(line) :
          /\ line[k] \notin {" ", "#"}
          /\ \A i \in 1..(k - 1) : line[i] = " "
    /\ \A k \in 1..Len(line) : line[k] # ":"

HasChar(c, text) == \E k \in 1..Len(text) : text[k] = c

C23_FailsWithinOnePollOfTimeout ==
    (gv_pc = "NoEmailReceivedError" /\ SearchVerificationEmail(mailbox, TRUE) = NoCode)
        => now >= timeout /\ now <= timeout + poll_interval

IsLabelled(p) == p.kind = "label"
IsGeneric(p) == p.kind = "generic"

\* the code a labelled pattern finds in a text, and the run of 4 to 8
\* digits the generic pattern finds
LabelledCode(text) == FirstMatch(SelectSeq(CODE_PATTERNS, IsLabelled), text)
DigitRun(text) == FirstMatch(SelectSeq(CODE_PATTERNS, IsGeneric), text)

\* the texts the searches of the inbox extract from
MailTexts == UNION {{mailbox[i].subject, mailbox[i].body} : i \in 1..Len(mailbox)}

\* C24: the extraction tries the labelled patterns before the generic one:
\* for a text that holds a run of 4 to 8 digits and a labelled code it
\* returns the labelled code, whichever of the two comes first in the text.
C24_LabelledCodeWins ==
    \A text \in MailTexts :
        (LabelledCode(text) # NoCode /\ DigitRun(text) # NoCode)
            => ExtractCodeFromText(text) = LabelledCode(text)

\* message k can be fetched and one of its texts holds a code
HoldsCode(k) ==
    /\ mailbox[k].ok
    /\ \/ ExtractCodeFromText(mailbox[k].subject) # NoCode
       \/ ExtractCodeFromText(mailbox[k].body) # NoCode

\* C25: the search goes through the sender's messages newest first, the
\* subject before the body, and returns the first code it finds: a labelled
\* code of 6 digits in the subject of a message is returned rather than a
\* run of digits in the body of the message or in an older message.
C25_NewestSubjectFirst ==
    [][(gv_pc = "polling" /\ gv_pc' = "returned") =>
          \A k \in 1..Len(mailbox) :
              (HoldsCode(k) /\ \A n \in (k + 1)..Len(mailbox) : ~HoldsCode(n)) =>
                  /\ code' \in {ExtractCodeFromText(mailbox[k].subject),
                                ExtractCodeFromText(mailbox[k].body)}
                  /\ ExtractCodeFromText(mailbox[k].subject) # NoCode
                        => code' = ExtractCodeFromText(mailbox[k].subject)
                  /\ Len(LabelledCode(mailbox[k].subject)) = 6
                        => code' = LabelledCode(mailbox[k].subject)]_vars

ClientErrors == {"400", "401", "403", "404", "429"}

\* C26: a 4xx response is never followed by another request: solve fails
\* on the attempt that received it, so a first response 400 makes exactly
\* one outbound call.
C26_NoRetryAfter4xx ==
    \A i \in 1..Len(calls) :
        calls[i] \in ClientErrors => i = Len(calls) /\ solve_pc = "raised"

\* C27: a response 401 or 403 makes solve raise InvalidAPIKeyError and a
\* response 429 RateLimitError, on the attempt that received it: no request
\* and no backoff sleep follows.
C27_KeyAndRateErrorsAreFinal ==
    \A i \in 1..Len(calls) :
        calls[i] \in {"401", "403", "429"} =>
            /\ i = Len(calls)
            /\ solve_pc = "raised"
            /\ solve_out = IF calls[i] = "429" THEN "RateLimitError" ELSE "InvalidAPIKeyError"
            /\ Len(sleeps) = i - 1

C27_Witness ==
    /\ calls = <<"timeout", "429">>
    /\ solve_pc = "raised"
    /\ solve_out = "RateLimitError"
    /\ sleeps = <<2>>

C29_SequentialRunsUseDistinctEmails ==
    [][\A r \in Runs :
          /\ (rpc[r] \in InFlight /\ rpc'[r] = "done") => remail[r] \in Terminals'
          /\ Terminals \subseteq Terminals'
          /\ (rpc[r] \notin InFlight /\ rpc'[r] \in InFlight) =>
                /\ remail'[r] \notin Terminals
                /\ \A q \in Runs \ {r} : remail[q] # None => remail'[r] # remail[q]]_vars

C29_Witness ==
    /\ rpc["r1"] = "done" /\ rresult["r1"] = SuccessResult(EmailOf(1))
    /\ rpc["r2"] = "done" /\ rresult["r2"] = FailureResult("Exception", EmailOf(2))
    /\ Len(available_emails) = 1

\* the record of the run is not in output_file
NotSaved(r) == \A i \in 1..Len(kicks) : kicks[i] # remail[r]

\* C30: a run whose registration succeeded and whose record could not be
\* written still returns success = True, and its credential is in used.
C30_SaveFailureKeepsSuccess ==
    \A r \in Runs :
        (/\ rpc[r] = "done"
         /\ rfail[r].stage \in {None, "save"}
         /\ NotSaved(r))
        => /\ rresult[r] = SuccessResult(remail[r])
           /\ remail[r] \in used_emails
           /\ remail[r] \notin failed_emails

C30_Witness ==
    /\ rpc["r1"] = "done"
    /\ rresult["r1"] = SuccessResult(EmailOf(1))
    /\ EmailOf(1) \in used_emails
    /\ kicks = <<>>

\* the variables of run r
RunState(r) == <<rpc[r], rfail[r], rresult[r], rcalls[r], remail[r]>>

\* C31: a run that starts on an empty available list returns a result with
\* success = False and no email, makes no call to the solver, the mailbox
\* or the registration endpoint, and leaves the three collections as they
\* are.
C31_EmptyPoolEndsTheRun ==
    /\ [][\A r \in Runs :
            (/\ rpc[r] \notin InFlight
             /\ available_emails = <<>>
             /\ RunState(r)' # RunState(r))
            => /\ rpc'[r] = "done"
               /\ rraised'[r] = FALSE
               /\ rresult'[r] = FailureResult("EmailVerificationError", None)
               /\ rresult'[r].success = FALSE
               /\ rcalls'[r] = <<>>
               /\ UNCHANGED <<available_emails, used_emails, failed_emails>>]_vars
    /\ [](\A r \in Runs : (rpc[r] = "done" /\ rfail[r].stage = "acquire") =>
              rcalls[r] = <<>> /\ remail[r] = None /\ rresult[r].email = None)

\* C31 witness: the second run on a pool of one credential found it empty.
C31_Witness ==
    /\ source = <<CredLine(1)>>
    /\ used_emails = {EmailOf(1)}
    /\ rpc["r2"] = "done"
    /\ rfail["r2"].stage = "acquire"
    /\ rresult["r2"].success = FALSE

StageCalls == <<"solve", "send", "mailbox", "verify", "register", "save">>
StageNo(call) == CHOOSE i \in DOMAIN StageCalls : StageCalls[i] = call
IsPrefix(s, t) == Len(s) <= Len(t) /\ s = SubSeq(t, 1, Len(s))

\* C33: the calls of a run are made in the order solve, send, mailbox,
\* verify, register, save, after its credential was acquired; a run that
\* is at a stage has made the calls of the stages before it and no other,
\* a run that failed at a stage made no call after that stage's, and the
\* register call is made with the token of a successful verify only.
C33_StagesInOrder ==
    \A r \in Runs :
        /\ IsPrefix(rcalls[r], StageCalls)
        /\ rcalls[r] # <<>> => remail[r] # None
        /\ rpc[r] \in InFlight => Len(rcalls[r]) = StageNo(CallOf(rpc[r])) - 1
        /\ (rpc[r] = "done" /\ rfail[r].stage \notin {None, "acquire", "save"}) =>
               Len(rcalls[r]) = StageNo(CallOf(rfail[r].stage))
        /\ (rpc[r] = "done" /\ rfail[r].stage = None) => rcalls[r] = StageCalls
        /\ (Len(rcalls[r]) >= StageNo("register")) => rtoken[r] = "token"

\* C33 witness: a run went through every stage, another stopped at verify.
C33_Witness ==
    /\ rcalls["r1"] = StageCalls
    /\ rresult["r1"] = SuccessResult(EmailOf(1))
    /\ rpc["r2"] = "done"
    /\ rfail["r2"].stage = "verify"
    /\ rcalls["r2"] = <<"solve", "send", "mailbox", "verify">>

Retried == {"timeout", "500", "503"}

\* C34: solve sends at most MAX_RETRIES requests and ends; the sleep after
\* attempt i is 2^i, there is one between two attempts and none after the
\* last; when every attempt timed out or got a 5xx, solve raises after the
\* last attempt: TimeoutError, a KasadaSolverError, when the last attempt
\* timed out, and KasadaSolverError itself otherwise.
C34_SolveEndsAfterMaxRetries ==
    /\ [](Len(calls) <= MAX_RETRIES)
    /\ [](sleeps = [i \in 1..Len(sleeps) |-> 2 ^ i])
    /\ [](Len(sleeps) = IF solve_pc = "attempt" \/ calls = <<>> THEN Len(calls)
                        ELSE Len(calls) - 1)
    /\ []((Len(calls) = MAX_RETRIES /\ \A i \in 1..Len(calls) : calls[i] \in Retried) =>
             /\ solve_pc = "raised"
             /\ solve_out = IF calls[MAX_RETRIES] = "timeout" THEN "TimeoutError"
                            ELSE "KasadaSolverError")
    /\ <>(solve_pc \in {"returned", "raised"})

\* C34 witness: three attempts, two sleeps, the last attempt timed out.
C34_Witness ==
    /\ calls = <<"500", "503", "timeout">>
    /\ sleeps = <<2, 4>>
    /\ solve_pc = "raised"
    /\ solve_out = "TimeoutError"

\* C35: any two requests sent through one client start at least
\* RATE_LIMIT_DELAY apart, whichever tasks sent them.
C35_CallsSpacedApart ==
    \A i, j \in 1..Len(starts) :
        i < j => starts[j] - starts[i] >= RATE_LIMIT_DELAY

\* a response of the server with a status below 500
Below500(resp) == resp \notin HttpExceptions /\ StatusOf(resp) < 500

\* C36: _make_request sends at most RETRY_ATTEMPTS requests; a response with
\* a 2xx or 4xx status ends the call at once, with that status and no sleep;
\* after a 5xx response or a transport error it sleeps RETRY_DELAY and sends
\* the request again while attempts are left, and after the last attempt it
\* returns the 5xx status or raises the transport error.
C36_RetriesServerErrorsOnly ==
    /\ Len(http_calls) <= RETRY_ATTEMPTS
    /\ \A i \in 1..Len(http_sleeps) : http_sleeps[i] = RETRY_DELAY
    /\ \A i \in 1..Len(http_calls) :
          IF Below500(http_calls[i])
             THEN /\ i = Len(http_calls)
                  /\ Len(http_sleeps) = i - 1
                  /\ http_pc = "returned"
                  /\ http_out = http_calls[i]
          ELSE IF i < Attempts(http_retry)
             THEN Len(http_sleeps) >= i
          ELSE /\ i = Len(http_calls)
               /\ Len(http_sleeps) = i - 1
               /\ http_pc = IF http_calls[i] \in HttpExceptions THEN "raised" ELSE "returned"
               /\ http_out = http_calls[i]
    /\ http_pc = "attempt" => Len(http_sleeps) = Len(http_calls)
    /\ http_pc = "attempt" => Len(http_calls) < Attempts(http_retry)

\* C36 witness: a 5xx and a timeout retried, then a 404 returned at once.
C36_Witness ==
    /\ http_calls = <<"503", "asyncio.TimeoutError", "404">>
    /\ http_sleeps = <<RETRY_DELAY, RETRY_DELAY>>
    /\ http_pc = "returned"
    /\ http_out = "404"

FinalStatuses == {STATUS_COMPLETED, STATUS_FAILED}

\* C37: with several workers on one queue, a stored status that is
\* completed or failed is never written again.
C37_TerminalStatusIsFinal ==
    [][\A j \in JobIds : status[j] \in FinalStatuses => status'[j] = status[j]]_vars

\* how often a job was set to running
Attempted(j) == Cardinality({i \in 1..Len(statusLog[j]) : statusLog[j][i] = STATUS_RUNNING})

C39_JunkIsDiscarded ==
    [][\A w \in Workers :
         (/\ wpc[w] = "blpop" /\ wpc'[w] # "blpop"
          /\ queue # <<>>
          /\ (~Head(queue).json \/ Head(queue).id = None)
          /\ queue' # queue) =>
            /\ queue' = Tail(queue)
            /\ wpc'[w] = "loop"
            /\ job_data'[w] = NoJob
            /\ UNCHANGED <<status, error_key, statusLog, events>>]_vars

\* C39 witness: both kinds of payload were pushed and popped, and no job
\* has a status or an event.
C39_Witness ==
    /\ {"no id", "bad json"} \subseteq enqueued
    /\ queue = <<>>
    /\ wpc["w1"] = "loop"
    /\ job_data["w1"] = NoJob
    /\ \A j \in JobIds : status[j] = None /\ statusLog[j] = <<>> /\ events[j] = <<>>

\* the records of the calls of _save_account that have ended
Saved == {Record(p, n) : p \in Savers, n \in 1..MaxSaves} \cap
         UNION {{Record(p, n) : n \in 1..saves[p]} : p \in Savers}

\* C40: every write of the account file adds one record at the end of what
\* the file held and keeps the earlier records in their order, and the file
\* holds the record of every save that has ended, also when two instances
\* save to it at overlapping times.
C40_AppendOnly ==
    /\ [][output_file' # output_file =>
            /\ Len(output_file') = Len(output_file) + 1
            /\ SubSeq(output_file', 1, Len(output_file)) = output_file]_vars
    /\ [](\A rec \in Saved : \E i \in 1..Len(output_file) : output_file[i] = rec)

====
